---- MODULE Spec2Model ----
(***************************************************************************)
(* Land deed registry: the Fabric chaincode land_registry.go (the Deed     *)
(* Ledger), the BlockchainService gateway, the deed routes (coordinator)   *)
(* and the verification-request routes, modelled as state machines.        *)
(*                                                                         *)
(* Ledger platform semantics used by the chaincode model (Hyperledger      *)
(* Fabric 2.4.7, the version pinned in fabric-network/network.bat:41):     *)
(*   - a chaincode invocation is simulated against the committed world     *)
(*     state; its PutState calls are collected in a write set that is      *)
(*     applied only if the invocation returns no error and, at commit,     *)
(*     every key it read still has the version it read;                    *)
(*   - every committed write of a key appends one entry to that key's      *)
(*     history; GetHistoryForKey iterates it newest first;                 *)
(*   - simple keys, composite keys and the generated transfer_* keys live  *)
(*     in disjoint parts of one key space (deed identifiers are assumed    *)
(*     not to start with "transfer_").                                     *)
(***************************************************************************)
EXTENDS Integers, Sequences, FiniteSets, TLC

\* ------------------------------------------------------------------ bounds
MaxTx == 3
MaxClock == 1

\* ------------------------------------------------------- input value sets
DeedIds == {"d1", "d2"}
DeedNumbers == {"n1", "n2"}
Owners == {"o1", "o2"}
AddressOf == [d1 |-> "a1", d2 |-> "a2"]
HashOf == [n1 |-> "h1", n2 |-> "h2"]
OwnerOf == [n1 |-> "o1", n2 |-> "o2"]
SuppliedStatusOf == [n1 |-> "pending", n2 |-> "verified"]
Verifiers == {"v1"}
Statuses == {"pending", "verified", "rejected", "transferred"}
Absent == "<absent>"
NoTime == -1

VARIABLES
    worldState,   \* ledger: committed key -> value (GetState / PutState)
    historyDb,    \* ledger: key -> sequence of committed values, oldest first
    clock,        \* time.Now() / Date.now(), non-decreasing
    committed,    \* number of committed ledger transactions
    response,     \* outcome of the last ledger call, with the caller's input
    lastCreated,  \* the deed as supplied to the last accepted CreateDeed,
                  \* Nil once any later mutation has committed
    attempts,     \* in-flight TransferDeed transactions (endorse, then commit)
    deeds,        \* relational table deeds, row id = position (SERIAL)
    mockMode,     \* BlockchainService.mockMode
    ipfsInitialized,        \* IPFSService.initialized
    land_deeds,             \* relational table land_deeds: id -> row
    verification_requests,  \* relational table verification_requests
    verification_logs,      \* relational table verification_logs, oldest first
    inflight,     \* verification-route handlers between two database queries
    ipfs,         \* the IPFS node: the blocks it holds and the CIDs it pins
    storeCalls,   \* the IPFSService calls made directly, each with its outcome
    server,       \* where startServer stands
    fabric,       \* fabricService: its contract handle, and its last call
    http          \* last HTTP request served and the response sent

ledgerVars == <<worldState, historyDb, committed, response, lastCreated>>
appVars == <<deeds, mockMode, ipfsInitialized, land_deeds, verification_requests,
             verification_logs, inflight, ipfs, storeCalls, server, fabric, http>>
vars == <<worldState, historyDb, clock, committed, response, lastCreated, attempts,
          deeds, mockMode, ipfsInitialized, land_deeds, verification_requests,
          verification_logs, inflight, ipfs, storeCalls, server, fabric, http>>

storeVars == <<ipfs, storeCalls>>
procVars == <<server, fabric>>

\* ------------------------------------------------------------ world state
Nil == [kind |-> "nil"]

DeedKey(id) == [ns |-> "deed", id |-> id, ts |-> 0]

CreateCompositeKey(objectType, attr) == [ns |-> objectType, id |-> attr, ts |-> 0]

TransferKey(deedID, unix) == [ns |-> "transfer", id |-> deedID, ts |-> unix]

GetState(ws, key) == IF key \in DOMAIN ws THEN ws[key] ELSE Nil

PutState(ws, key, value) ==
    [k \in DOMAIN ws \cup {key} |-> IF k = key THEN value ELSE ws[k]]

Version(hist, key) == IF key \in DOMAIN hist THEN Len(hist[key]) ELSE 0

\* The Deed struct as the caller's JSON fills it (json.Unmarshal).
Deed(id, number, owner, address, hash, status, vstatus) ==
    [kind |-> "deed", ID |-> id, DeedNumber |-> number, OwnerID |-> owner,
     PropertyAddress |-> address, IPFSHash |-> hash, Status |-> status,
     VerificationStatus |-> vstatus, CreatedAt |-> NoTime, UpdatedAt |-> NoTime,
     VerifiedAt |-> NoTime, VerifiedBy |-> ""]

Transfer(deedID, from, to, reason) ==
    [kind |-> "transfer", ID |-> "", DeedID |-> deedID, FromOwnerID |-> from,
     ToOwnerID |-> to, TransferReason |-> reason, CreatedAt |-> NoTime]

\* Caller inputs: every identifier and deed number combination; the owner,
\* address, hash and caller-supplied status vary with them.
InputDeeds ==
    {Deed(id, n, OwnerOf[n], AddressOf[id], HashOf[n], SuppliedStatusOf[n], SuppliedStatusOf[n]) :
        id \in DeedIds, n \in DeedNumbers}

\* Partial updates: no field, any single field, or all three.
InputUpdates ==
    {u \in [status : {Absent, "verified"},
            verificationStatus : {Absent, "rejected"},
            verifiedBy : {Absent} \cup Verifiers] :
        Cardinality({f \in {"status", "verificationStatus", "verifiedBy"} : u[f] # Absent}) # 2}

InputTransfers ==
    {Transfer(d, f, t, "sale") : d \in DeedIds, f \in Owners, t \in Owners}

\* Outcome of simulating one invocation: the error (or "none"), the value
\* returned, the keys read and the PutState calls made so far, in order.
Sim(err, ret, reads, writes) ==
    [err |-> err, ret |-> ret, reads |-> reads, writes |-> writes]

\* ---------------------------------------------------------------- chaincode
DeedExists(ws, deedID) == GetState(ws, DeedKey(deedID)) # Nil

GetDeed(ws, deedID) ==
    LET deedJSON == GetState(ws, DeedKey(deedID)) IN
    IF deedJSON = Nil
    THEN Sim("NotFound", Nil, {DeedKey(deedID)}, <<>>)
    ELSE Sim("none", deedJSON, {DeedKey(deedID)}, <<>>)

GetDeedByNumber(ws, deedNumber) ==
    LET deedNumberKey == CreateCompositeKey("deedNumber", deedNumber)
        deedIDBytes == GetState(ws, deedNumberKey)
    IN  IF deedIDBytes = Nil
        THEN Sim("NotFound", Nil, {deedNumberKey}, <<>>)
        ELSE LET r == GetDeed(ws, deedIDBytes.id)
             IN  Sim(r.err, r.ret, r.reads \cup {deedNumberKey}, <<>>)

\* Variant without the existence check of land_registry.go:55-61.
CreateDeed_NoExistsCheck(ws, deed, now, fail) ==
    LET stamped == [deed EXCEPT !.CreatedAt = now, !.UpdatedAt = now,
                                !.Status = "pending",
                                !.VerificationStatus = "pending"]
        deedNumberKey == CreateCompositeKey("deedNumber", deed.DeedNumber)
        put1 == <<DeedKey(deed.ID), stamped>>
        put2 == <<deedNumberKey, [kind |-> "index", id |-> deed.ID]>>
        reads == {DeedKey(deed.ID)}
    IN  IF fail = 1 THEN Sim("PutStateFailed", Nil, reads, <<>>)
        ELSE IF fail = 2 THEN Sim("PutStateFailed", Nil, reads, <<put1>>)
        ELSE Sim("none", Nil, reads, <<put1, put2>>)

\* Variant that indexes the deed under its identifier instead of its number.
CreateDeed_IndexById(ws, deed, now, fail) ==
    LET stamped == [deed EXCEPT !.CreatedAt = now, !.UpdatedAt = now,
                                !.Status = "pending",
                                !.VerificationStatus = "pending"]
        deedNumberKey == CreateCompositeKey("deedNumber", deed.ID)
        put1 == <<DeedKey(deed.ID), stamped>>
        put2 == <<deedNumberKey, [kind |-> "index", id |-> deed.ID]>>
        reads == {DeedKey(deed.ID)}
    IN  IF DeedExists(ws, deed.ID) THEN Sim("AlreadyExists", Nil, reads, <<>>)
        ELSE IF fail = 1 THEN Sim("PutStateFailed", Nil, reads, <<>>)
        ELSE IF fail = 2 THEN Sim("PutStateFailed", Nil, reads, <<put1>>)
        ELSE Sim("none", Nil, reads, <<put1, put2>>)

CreateDeed(ws, deed, now, fail) ==
    LET stamped == [deed EXCEPT !.CreatedAt = now, !.UpdatedAt = now,
                                !.Status = "pending",
                                !.VerificationStatus = "pending"]
        deedNumberKey == CreateCompositeKey("deedNumber", deed.DeedNumber)
        put1 == <<DeedKey(deed.ID), stamped>>
        put2 == <<deedNumberKey, [kind |-> "index", id |-> deed.ID]>>
        reads == {DeedKey(deed.ID)}
    IN  IF DeedExists(ws, deed.ID) THEN Sim("AlreadyExists", Nil, reads, <<>>)
        ELSE IF fail = 1 THEN Sim("PutStateFailed", Nil, reads, <<>>)
        ELSE IF fail = 2 THEN Sim("PutStateFailed", Nil, reads, <<put1>>)
        ELSE Sim("none", Nil, reads, <<put1, put2>>)

\* Variant that skips the PutState when the partial update names no field.
UpdateDeed_SkipEmptyUpdate(ws, deedID, updates, now, fail) ==
    LET r == GetDeed(ws, deedID)
        deed == r.ret
        d1 == IF updates.status # Absent
              THEN [deed EXCEPT !.Status = updates.status] ELSE deed
        d2 == IF updates.verificationStatus # Absent
              THEN [d1 EXCEPT !.VerificationStatus = updates.verificationStatus]
              ELSE d1
        d3 == IF updates.verifiedBy # Absent
              THEN [d2 EXCEPT !.VerifiedBy = updates.verifiedBy, !.VerifiedAt = now]
              ELSE d2
        d4 == [d3 EXCEPT !.UpdatedAt = now]
    IN  IF r.err # "none" THEN Sim(r.err, Nil, r.reads, <<>>)
        ELSE IF fail = 1 THEN Sim("PutStateFailed", Nil, r.reads, <<>>)
        ELSE IF d3 = deed THEN Sim("none", Nil, r.reads, <<>>)
        ELSE Sim("none", Nil, r.reads, <<<<DeedKey(deedID), d4>>>>)

\* UpdateDeed stamping the verification time on every update.
UpdateDeed_AlwaysStampsVerifiedAt(ws, deedID, updates, now, fail) ==
    LET r == GetDeed(ws, deedID)
        deed == r.ret
        d1 == IF updates.status # Absent
              THEN [deed EXCEPT !.Status = updates.status] ELSE deed
        d2 == IF updates.verificationStatus # Absent
              THEN [d1 EXCEPT !.VerificationStatus = updates.verificationStatus]
              ELSE d1
        d3 == IF updates.verifiedBy # Absent
              THEN [d2 EXCEPT !.VerifiedBy = updates.verifiedBy, !.VerifiedAt = now]
              ELSE [d2 EXCEPT !.VerifiedAt = now]
        d4 == [d3 EXCEPT !.UpdatedAt = now]
    IN  IF r.err # "none" THEN Sim(r.err, Nil, r.reads, <<>>)
        ELSE IF fail = 1 THEN Sim("PutStateFailed", Nil, r.reads, <<>>)
        ELSE Sim("none", Nil, r.reads, <<<<DeedKey(deedID), d4>>>>)

UpdateDeed(ws, deedID, updates, now, fail) ==
    LET r == GetDeed(ws, deedID)
        deed == r.ret
        d1 == IF updates.status # Absent
              THEN [deed EXCEPT !.Status = updates.status] ELSE deed
        d2 == IF updates.verificationStatus # Absent
              THEN [d1 EXCEPT !.VerificationStatus = updates.verificationStatus]
              ELSE d1
        d3 == IF updates.verifiedBy # Absent
              THEN [d2 EXCEPT !.VerifiedBy = updates.verifiedBy, !.VerifiedAt = now]
              ELSE d2
        d4 == [d3 EXCEPT !.UpdatedAt = now]
    IN  IF r.err # "none" THEN Sim(r.err, Nil, r.reads, <<>>)
        ELSE IF fail = 1 THEN Sim("PutStateFailed", Nil, r.reads, <<>>)
        ELSE Sim("none", Nil, r.reads, <<<<DeedKey(deedID), d4>>>>)

\* Variant without the current-owner check of land_registry.go:184-186.
TransferDeed_NoOwnerCheck(ws, transfer, now, fail) ==
    LET r == GetDeed(ws, transfer.DeedID)
        deed == r.ret
        moved == [deed EXCEPT !.OwnerID = transfer.ToOwnerID,
                              !.Status = "transferred", !.UpdatedAt = now]
        put1 == <<DeedKey(transfer.DeedID), moved>>
        transferID == TransferKey(transfer.DeedID, now)
        put2 == <<transferID, [transfer EXCEPT !.ID = transferID, !.CreatedAt = now]>>
    IN  IF r.err # "none" THEN Sim(r.err, Nil, r.reads, <<>>)
        ELSE IF fail = 1 THEN Sim("PutStateFailed", Nil, r.reads, <<>>)
        ELSE IF fail = 2 THEN Sim("PutStateFailed", Nil, r.reads, <<put1>>)
        ELSE Sim("none", Nil, r.reads, <<put1, put2>>)

\* Variant comparing the current owner with the transfer's to-owner.
TransferDeed_ChecksToOwner(ws, transfer, now, fail) ==
    LET r == GetDeed(ws, transfer.DeedID)
        deed == r.ret
        moved == [deed EXCEPT !.OwnerID = transfer.ToOwnerID,
                              !.Status = "transferred", !.UpdatedAt = now]
        put1 == <<DeedKey(transfer.DeedID), moved>>
        transferID == TransferKey(transfer.DeedID, now)
        put2 == <<transferID, [transfer EXCEPT !.ID = transferID, !.CreatedAt = now]>>
    IN  IF r.err # "none" THEN Sim(r.err, Nil, r.reads, <<>>)
        ELSE IF deed.OwnerID # transfer.ToOwnerID
        THEN Sim("OwnershipMismatch", Nil, r.reads, <<>>)
        ELSE IF fail = 1 THEN Sim("PutStateFailed", Nil, r.reads, <<>>)
        ELSE IF fail = 2 THEN Sim("PutStateFailed", Nil, r.reads, <<put1>>)
        ELSE Sim("none", Nil, r.reads, <<put1, put2>>)

\* TransferDeed(ctx, transferData): owner check, then the deed and the
\* transfer record are written.
\* TransferDeed storing the moved deed without a Transfer record.
TransferDeed_NoRecord(ws, transfer, now, fail) ==
    LET r == GetDeed(ws, transfer.DeedID)
        deed == r.ret
        moved == [deed EXCEPT !.OwnerID = transfer.ToOwnerID,
                              !.Status = "transferred", !.UpdatedAt = now]
        put1 == <<DeedKey(transfer.DeedID), moved>>
    IN  IF r.err # "none" THEN Sim(r.err, Nil, r.reads, <<>>)
        ELSE IF deed.OwnerID # transfer.FromOwnerID
        THEN Sim("OwnershipMismatch", Nil, r.reads, <<>>)
        ELSE IF fail = 1 THEN Sim("PutStateFailed", Nil, r.reads, <<>>)
        ELSE Sim("none", Nil, r.reads, <<put1>>)

\* TransferDeed sending the moved deed back to pending verification.
TransferDeed_ResetsVerification(ws, transfer, now, fail) ==
    LET r == GetDeed(ws, transfer.DeedID)
        deed == r.ret
        moved == [deed EXCEPT !.OwnerID = transfer.ToOwnerID,
                              !.Status = "transferred", !.UpdatedAt = now,
                              !.VerificationStatus = "pending", !.VerifiedBy = ""]
        put1 == <<DeedKey(transfer.DeedID), moved>>
        transferID == TransferKey(transfer.DeedID, now)
        put2 == <<transferID, [transfer EXCEPT !.ID = transferID, !.CreatedAt = now]>>
    IN  IF r.err # "none" THEN Sim(r.err, Nil, r.reads, <<>>)
        ELSE IF deed.OwnerID # transfer.FromOwnerID
        THEN Sim("OwnershipMismatch", Nil, r.reads, <<>>)
        ELSE IF fail = 1 THEN Sim("PutStateFailed", Nil, r.reads, <<>>)
        ELSE IF fail = 2 THEN Sim("PutStateFailed", Nil, r.reads, <<put1>>)
        ELSE Sim("none", Nil, r.reads, <<put1, put2>>)

TransferDeed(ws, transfer, now, fail) ==
    LET r == GetDeed(ws, transfer.DeedID)
        deed == r.ret
        moved == [deed EXCEPT !.OwnerID = transfer.ToOwnerID,
                              !.Status = "transferred", !.UpdatedAt = now]
        put1 == <<DeedKey(transfer.DeedID), moved>>
        transferID == TransferKey(transfer.DeedID, now)
        put2 == <<transferID, [transfer EXCEPT !.ID = transferID, !.CreatedAt = now]>>
    IN  IF r.err # "none" THEN Sim(r.err, Nil, r.reads, <<>>)
        ELSE IF deed.OwnerID # transfer.FromOwnerID
        THEN Sim("OwnershipMismatch", Nil, r.reads, <<>>)
        ELSE IF fail = 1 THEN Sim("PutStateFailed", Nil, r.reads, <<>>)
        ELSE IF fail = 2 THEN Sim("PutStateFailed", Nil, r.reads, <<put1>>)
        ELSE Sim("none", Nil, r.reads, <<put1, put2>>)

RECURSIVE Reverse(_)
Reverse(s) == IF s = <<>> THEN <<>> ELSE Append(Reverse(Tail(s)), Head(s))

\* Fabric 2.x history iterator: the committed values of a key, newest first.
GetHistoryForKey(hist, key) ==
    IF key \in DOMAIN hist THEN Reverse(hist[key]) ELSE <<>>

GetDeedHistory(hist, deedID) == GetHistoryForKey(hist, DeedKey(deedID))

\* ------------------------------------------------------------------ commit
RECURSIVE ApplyWrites(_, _)
ApplyWrites(ws, writes) ==
    IF writes = <<>> THEN ws
    ELSE ApplyWrites(PutState(ws, Head(writes)[1], Head(writes)[2]), Tail(writes))

\* One history entry per key written by the transaction (its final value).
RecordHistory(hist, ws, writes) ==
    LET keys == {writes[i][1] : i \in 1..Len(writes)}
    IN  [k \in DOMAIN hist \cup keys |->
            IF k \in keys
            THEN Append(IF k \in DOMAIN hist THEN hist[k] ELSE <<>>, ws[k])
            ELSE hist[k]]

\* The write set of a failed invocation is discarded.
Commits(sim) == sim.err = "none" /\ sim.writes # <<>>

Commit(sim) ==
    IF Commits(sim)
    THEN LET ws == ApplyWrites(worldState, sim.writes) IN
         /\ worldState' = ws
         /\ historyDb' = RecordHistory(historyDb, ws, sim.writes)
         /\ committed' = committed + 1
    ELSE UNCHANGED <<worldState, historyDb, committed>>

Response(op, deed, id, number, updates, transfer, sim, list) ==
    [op |-> op, deed |-> deed, id |-> id, number |-> number, updates |-> updates,
     transfer |-> transfer, err |-> sim.err, ret |-> sim.ret, list |-> list]

NoUpdates == [status |-> Absent, verificationStatus |-> Absent, verifiedBy |-> Absent]

\* Where an invocation's PutState may fail: nowhere (0), at its first call (1)
\* or at its second (2). A failure at the first call leaves the same write
\* set as a rejected call, so the two-write operations draw from 0 and 2.
PutFailures == {0, 2}

\* ------------------------------------------------- ledger operations (Spec)
SubmitCreateDeed ==
    \E deed \in InputDeeds, fail \in PutFailures :
        LET sim == CreateDeed(worldState, deed, clock, fail) IN
        /\ committed < MaxTx
        /\ UNCHANGED <<clock, attempts, appVars>>
        /\ Commit(sim)
        /\ response' = Response("CreateDeed", deed, deed.ID, deed.DeedNumber, NoUpdates,
                                Nil, sim, <<>>)
        /\ lastCreated' = IF Commits(sim) THEN deed ELSE lastCreated

SubmitUpdateDeed ==
    \E deedID \in DeedIds, updates \in InputUpdates, fail \in {0, 1} :
        LET sim == UpdateDeed(worldState, deedID, updates, clock, fail) IN
        /\ committed < MaxTx
        /\ UNCHANGED <<clock, attempts, appVars>>
        /\ Commit(sim)
        /\ response' = Response("UpdateDeed", Nil, deedID, "", updates, Nil, sim, <<>>)
        /\ lastCreated' = IF Commits(sim) THEN Nil ELSE lastCreated

SubmitTransferDeed ==
    \E transfer \in InputTransfers, fail \in PutFailures :
        LET sim == TransferDeed(worldState, transfer, clock, fail) IN
        /\ committed < MaxTx
        /\ UNCHANGED <<clock, attempts, appVars>>
        /\ Commit(sim)
        /\ response' = Response("TransferDeed", Nil, transfer.DeedID, "", NoUpdates,
                                transfer, sim, <<>>)
        /\ lastCreated' = IF Commits(sim) THEN Nil ELSE lastCreated

EvaluateGetDeed ==
    \E deedID \in DeedIds :
        /\ response' = Response("GetDeed", Nil, deedID, "", NoUpdates, Nil,
                                GetDeed(worldState, deedID), <<>>)
        /\ UNCHANGED <<worldState, historyDb, clock, committed, lastCreated, attempts, appVars>>

EvaluateGetDeedByNumber ==
    \E deedNumber \in DeedNumbers :
        /\ response' = Response("GetDeedByNumber", Nil, "", deedNumber, NoUpdates, Nil,
                                GetDeedByNumber(worldState, deedNumber), <<>>)
        /\ UNCHANGED <<worldState, historyDb, clock, committed, lastCreated, attempts, appVars>>

EvaluateGetDeedHistory ==
    \E deedID \in DeedIds :
        /\ response' = Response("GetDeedHistory", Nil, deedID, "", NoUpdates, Nil,
                                Sim("none", Nil, {}, <<>>), GetDeedHistory(historyDb, deedID))
        /\ UNCHANGED <<worldState, historyDb, clock, committed, lastCreated, attempts, appVars>>

\* time.Now() never goes back and may stay equal between two calls.
Tick ==
    /\ clock < MaxClock
    /\ clock' = clock + 1
    /\ UNCHANGED <<ledgerVars, attempts, appVars>>

NoResponse == Response("init", Nil, "", "", NoUpdates, Nil, Sim("none", Nil, {}, <<>>), <<>>)

NoRequest == [route |-> "none", status |-> 0, error |-> "none"]

\* An IPFS node holding nothing.
NoBlocks == [blocks |-> {}, pins |-> {}]

\* fabricService as loaded: no contract, nothing called.
NoFabric == [contract |-> FALSE, call |-> "none", threw |-> FALSE, error |-> "none"]

\* An empty ledger to which nothing has been submitted.
InitLedger ==
    /\ worldState = <<>>
    /\ historyDb = <<>>
    /\ clock = 0
    /\ committed = 0
    /\ response = NoResponse
    /\ lastCreated = Nil
    /\ attempts = <<>>

\* A backend that has served no request, with empty tables.
InitApp ==
    /\ deeds = <<>>
    /\ mockMode = FALSE
    /\ ipfsInitialized = FALSE
    /\ land_deeds = <<>>
    /\ verification_requests = <<>>
    /\ verification_logs = <<>>
    /\ inflight = <<>>
    /\ ipfs = NoBlocks
    /\ storeCalls = <<>>
    /\ server = "listening"
    /\ fabric = NoFabric
    /\ http = NoRequest

Init == InitLedger /\ InitApp

Next ==
    \/ SubmitCreateDeed
    \/ SubmitUpdateDeed
    \/ SubmitTransferDeed
    \/ EvaluateGetDeed
    \/ EvaluateGetDeedByNumber
    \/ EvaluateGetDeedHistory
    \/ Tick

Spec == Init /\ [][Next]_vars

TypeOK == committed \in 0..MaxTx /\ clock \in 0..MaxClock

\* ------------------------------------------------------- ledger properties
StoredDeedKeys == {k \in DOMAIN worldState : k.ns = "deed"}
StoredIndexKeys == {k \in DOMAIN worldState : k.ns = "deedNumber"}
StoredTransferKeys == {k \in DOMAIN worldState : k.ns = "transfer"}

HistoryOf(hist, deedID) ==
    IF DeedKey(deedID) \in DOMAIN hist THEN hist[DeedKey(deedID)] ELSE <<>>

IsPrefix(s, t) == Len(s) <= Len(t) /\ \A i \in 1..Len(s) : s[i] = t[i]

Mutators == {"CreateDeed", "UpdateDeed", "TransferDeed"}

\* The step is a ledger call (it leaves the clock alone and sets response).
CallStep == clock' = clock

\* C1: a TransferDeed whose from-owner differs from the deed's current owner
\* fails with OwnershipMismatch and leaves the world state (the deed's owner
\* and status, the stored Transfer records) and the history unchanged.
C1_TransferMismatchRejected ==
    [][(/\ CallStep
        /\ response'.op = "TransferDeed"
        /\ DeedExists(worldState, response'.id)
        /\ worldState[DeedKey(response'.id)].OwnerID # response'.transfer.FromOwnerID)
       => (/\ response'.err = "OwnershipMismatch"
           /\ worldState' = worldState
           /\ historyDb' = historyDb)]_vars

C1_Witness ==
    /\ response.op = "TransferDeed"
    /\ response.err = "OwnershipMismatch"
    /\ DeedExists(worldState, response.id)
    /\ worldState[DeedKey(response.id)].OwnerID # response.transfer.FromOwnerID
    /\ worldState[DeedKey(response.id)].OwnerID # response.transfer.ToOwnerID

\* C3 (as claimed): no two stored deed records have the same deed number.
C3_DeedNumberUnique ==
    \A k1 \in StoredDeedKeys, k2 \in StoredDeedKeys :
        k1 # k2 => worldState[k1].DeedNumber # worldState[k2].DeedNumber

\* C5 (as claimed): GetDeedHistory returns one entry per committed mutation
\* of the deed, oldest first, entry k being the deed's state after the k-th
\* committed mutation.
C5_HistoryOldestFirst ==
    response.op = "GetDeedHistory" =>
        /\ Len(response.list) = Len(HistoryOf(historyDb, response.id))
        /\ \A k \in 1..Len(response.list) :
               response.list[k] = HistoryOf(historyDb, response.id)[k]

\* C6: the history of every deed identifier only grows by appending: it is
\* a prefix of itself after every step, a successful CreateDeed, UpdateDeed
\* or TransferDeed on an identifier adds exactly one entry for it, and a
\* failed call or a read adds none.
C6_HistoryAppendOnly ==
    [][\A id \in DeedIds :
         /\ IsPrefix(HistoryOf(historyDb, id), HistoryOf(historyDb', id))
         /\ IF /\ CallStep
               /\ response'.op \in Mutators /\ response'.err = "none" /\ response'.id = id
            THEN /\ Len(HistoryOf(historyDb', id)) = Len(HistoryOf(historyDb, id)) + 1
                 /\ HistoryOf(historyDb', id)[Len(HistoryOf(historyDb', id))]
                        = worldState'[DeedKey(id)]
            ELSE HistoryOf(historyDb', id) = HistoryOf(historyDb, id)]_vars

C6_Witness ==
    /\ response.op = "UpdateDeed"
    /\ response.err = "none"
    /\ response.updates = NoUpdates
    /\ Len(HistoryOf(historyDb, response.id)) = 3

SuppliedFields(d) ==
    <<d.ID, d.DeedNumber, d.OwnerID, d.PropertyAddress, d.IPFSHash>>

ReadAfterCreate ==
    /\ response.op = "GetDeedByNumber"
    /\ lastCreated # Nil
    /\ response.number = lastCreated.DeedNumber

\* C7 (as claimed): reading a deed by number right after CreateDeed accepted
\* it returns the supplied identifier, deed number, owner, property address,
\* document hash, status and verification status.
C7_RoundTripAllFields ==
    ReadAfterCreate =>
        /\ response.err = "none"
        /\ SuppliedFields(response.ret) = SuppliedFields(lastCreated)
        /\ response.ret.Status = lastCreated.Status
        /\ response.ret.VerificationStatus = lastCreated.VerificationStatus

\* C7 (amended): reading a deed by number right after CreateDeed accepted it
\* returns the supplied identifier, deed number, owner, property address and
\* document hash; status and verification status are "pending" whatever the
\* caller supplied.
C7_RoundTrip ==
    ReadAfterCreate =>
        /\ response.err = "none"
        /\ SuppliedFields(response.ret) = SuppliedFields(lastCreated)
        /\ response.ret.Status = "pending"
        /\ response.ret.VerificationStatus = "pending"

C7_Witness ==
    /\ ReadAfterCreate
    /\ lastCreated.Status = "verified"
    /\ Cardinality(StoredDeedKeys) = 2

\* C8: CreateDeed on an identifier already present fails with AlreadyExists,
\* GetDeed on an absent identifier and GetDeedByNumber on an absent number
\* fail with NotFound; each leaves the records, the index and the history
\* unchanged.
C8_AlreadyExistsAndNotFound ==
    [][/\ (CallStep /\ response'.op = "CreateDeed" /\ DeedExists(worldState, response'.id))
            => (/\ response'.err = "AlreadyExists"
                /\ worldState' = worldState /\ historyDb' = historyDb)
       /\ (CallStep /\ response'.op = "GetDeed" /\ ~DeedExists(worldState, response'.id))
            => (/\ response'.err = "NotFound"
                /\ worldState' = worldState /\ historyDb' = historyDb)
       /\ (/\ CallStep
           /\ response'.op = "GetDeedByNumber"
           /\ CreateCompositeKey("deedNumber", response'.number) \notin DOMAIN worldState)
            => (/\ response'.err = "NotFound"
                /\ worldState' = worldState /\ historyDb' = historyDb)]_vars

C8_Witness ==
    /\ response.op = "CreateDeed"
    /\ response.err = "AlreadyExists"
    /\ worldState[DeedKey(response.id)].DeedNumber # response.number
    /\ CreateCompositeKey("deedNumber", response.number) \notin DOMAIN worldState

\* C9 (as claimed): every deed-number index entry names an existing deed
\* carrying that number, and every stored deed is indexed under its number
\* by its own identifier.
C9_IndexConsistent ==
    /\ \A k \in StoredIndexKeys :
          /\ DeedExists(worldState, worldState[k].id)
          /\ worldState[DeedKey(worldState[k].id)].DeedNumber = k.id
    /\ \A k \in StoredDeedKeys :
          /\ CreateCompositeKey("deedNumber", worldState[k].DeedNumber) \in DOMAIN worldState
          /\ worldState[CreateCompositeKey("deedNumber", worldState[k].DeedNumber)].id
                = worldState[k].ID

\* The half of C9 the code keeps: no index entry is orphaned.
IndexEntriesResolve ==
    \A k \in StoredIndexKeys :
        /\ DeedExists(worldState, worldState[k].id)
        /\ worldState[DeedKey(worldState[k].id)].DeedNumber = k.id

\* ------------------------------------------- concurrent transfers (SpecRace)
\* Two TransferDeed transactions on one deed.  Each is simulated (endorsed)
\* against the committed state, where the chaincode runs, and committed
\* later; a transaction whose read set changed in between is invalidated.
RaceOwners == {"o1", "o2", "o3"}
RaceDeed == "d1"
Attempts == {"correct", "stale"}

Attempt(transfer) ==
    [transfer |-> transfer, pc |-> "submitted", sim |-> Sim("none", Nil, {}, <<>>),
     readVersions |-> <<>>, outcome |-> "none"]

CurrentOwner == worldState[DeedKey(RaceDeed)].OwnerID

RaceCreateDeed ==
    \E deed \in InputDeeds :
        LET sim == CreateDeed(worldState, deed, clock, 0) IN
        /\ worldState = <<>>
        /\ deed.ID = RaceDeed
        /\ Commit(sim)
        /\ response' = Response("CreateDeed", deed, deed.ID, deed.DeedNumber, NoUpdates,
                                Nil, sim, <<>>)
        /\ lastCreated' = deed
        /\ UNCHANGED <<clock, attempts, appVars>>

\* An earlier, completed transfer: its from-owner is a former owner.
RacePriorTransfer ==
    \E to \in RaceOwners :
        LET transfer == Transfer(RaceDeed, CurrentOwner, to, "sale")
            sim == TransferDeed(worldState, transfer, clock, 0)
        IN  /\ DeedExists(worldState, RaceDeed)
            /\ Len(HistoryOf(historyDb, RaceDeed)) = 1
            /\ attempts = <<>>
            /\ Commit(sim)
            /\ response' = Response("TransferDeed", Nil, RaceDeed, "", NoUpdates,
                                    transfer, sim, <<>>)
            /\ lastCreated' = Nil
            /\ UNCHANGED <<clock, attempts, appVars>>

\* Two clients submit: one names the current owner, the other a stale one.
RaceSubmit ==
    \E staleFrom \in RaceOwners, to1 \in RaceOwners, to2 \in RaceOwners :
        /\ DeedExists(worldState, RaceDeed)
        /\ attempts = <<>>
        /\ staleFrom # CurrentOwner
        /\ attempts' = [a \in Attempts |->
                          IF a = "correct"
                          THEN Attempt(Transfer(RaceDeed, CurrentOwner, to1, "sale"))
                          ELSE Attempt(Transfer(RaceDeed, staleFrom, to2, "gift"))]
        /\ UNCHANGED <<ledgerVars, clock, appVars>>

EndorseTransfer(a) ==
    LET sim == TransferDeed(worldState, attempts[a].transfer, clock, 0) IN
    /\ attempts # <<>>
    /\ attempts[a].pc = "submitted"
    /\ attempts' = [attempts EXCEPT ![a] =
            IF sim.err # "none"
            THEN [@ EXCEPT !.pc = "done", !.sim = sim, !.outcome = sim.err]
            ELSE [@ EXCEPT !.pc = "endorsed", !.sim = sim,
                           !.readVersions = [k \in sim.reads |-> Version(historyDb, k)]]]
    /\ UNCHANGED <<ledgerVars, clock, appVars>>

ReadSetValid(a) ==
    \A k \in attempts[a].sim.reads : Version(historyDb, k) = attempts[a].readVersions[k]

CommitTransfer(a) ==
    /\ attempts # <<>>
    /\ attempts[a].pc = "endorsed"
    /\ IF ReadSetValid(a)
       THEN /\ Commit(attempts[a].sim)
            /\ attempts' = [attempts EXCEPT ![a].pc = "done", ![a].outcome = "success"]
       ELSE /\ UNCHANGED <<worldState, historyDb, committed>>
            /\ attempts' = [attempts EXCEPT ![a].pc = "done",
                                            ![a].outcome = "MVCC_READ_CONFLICT"]
    /\ UNCHANGED <<response, lastCreated, clock, appVars>>

NextRace ==
    \/ RaceCreateDeed
    \/ RacePriorTransfer
    \/ RaceSubmit
    \/ \E a \in Attempts : EndorseTransfer(a)
    \/ \E a \in Attempts : CommitTransfer(a)
    \/ Tick

SpecRace == Init /\ [][NextRace]_vars

RaceOver == attempts # <<>> /\ \A a \in Attempts : attempts[a].pc = "done"

Outcomes(o) == {a \in Attempts : attempts[a].outcome = o}

OneSuccessOneMismatch ==
    /\ Cardinality(Outcomes("success")) = 1
    /\ Cardinality(Outcomes("OwnershipMismatch")) = 1
    /\ CurrentOwner = attempts["correct"].transfer.ToOwnerID

\* C2 (as claimed): whatever the interleaving, the two attempts end with
\* exactly one success and exactly one OwnershipMismatch, and the deed is
\* owned by the to-owner of the attempt that named the current owner.
C2_OneSuccessOneMismatch == RaceOver => OneSuccessOneMismatch

\* C2 (amended): the same, provided the to-owner of the correct attempt is
\* not the from-owner the stale attempt carries.
C2_OneSuccessUnlessHandedBack ==
    (/\ RaceOver
     /\ attempts["correct"].transfer.ToOwnerID # attempts["stale"].transfer.FromOwnerID)
    => OneSuccessOneMismatch

C2_Witness ==
    /\ RaceOver
    /\ attempts["correct"].transfer.ToOwnerID # attempts["stale"].transfer.FromOwnerID
    /\ attempts["stale"].outcome = "OwnershipMismatch"
    /\ attempts["stale"].sim.ret = Nil
    /\ Len(HistoryOf(historyDb, RaceDeed)) = 3
    /\ HistoryOf(historyDb, RaceDeed)[1].OwnerID = attempts["stale"].transfer.FromOwnerID

\* ---------------------------------------------- deed coordinator (SpecCoord)
Users == {"u1", "u2", "u3", "u4"}
RoleOf == [u1 |-> "citizen", u2 |-> "government_official",
           u3 |-> "legal_professional", u4 |-> "bank_official"]
Files == {"f1"}
NoFile == "<none>"
Null == "<null>"
Sha256 == [f1 |-> "sha256-f1"]
Cid == [f1 |-> "cid-f1"]
RandomBytes == {"r1"}

\* A chaincode argument as sent on the wire: a JSON document or a bare string.
Str(x) == [json |-> FALSE, text |-> x, doc |-> Nil]
Json(doc) == [json |-> TRUE, text |-> "", doc |-> doc]

\* Number of parameters each chaincode function declares after the context.
ChaincodeParams == [CreateDeed |-> 1, GetDeed |-> 1, GetDeedByNumber |-> 1,
                    UpdateDeed |-> 2, TransferDeed |-> 1, GetDeedHistory |-> 1]

\* contract.submitTransaction(fn, ...args): the contract API looks the
\* function up by its exact name and hands it its declared parameters, taken
\* from the front of args; json.Unmarshal rejects a bare string.
SubmitTransaction(ws, fn, args, now) ==
    IF fn \notin DOMAIN ChaincodeParams
    THEN Sim("FunctionNotFound", Nil, {}, <<>>)
    ELSE IF Len(args) < ChaincodeParams[fn]
    THEN Sim("IncorrectParams", Nil, {}, <<>>)
    ELSE IF fn = "CreateDeed"
    THEN IF args[1].json
         THEN CreateDeed(ws, args[1].doc, now, 0)
         ELSE Sim("UnmarshalError", Nil, {}, <<>>)
    ELSE IF fn = "GetDeed"
    THEN GetDeed(ws, args[1].text)
    ELSE Sim("Unsupported", Nil, {}, <<>>)

\* JSON.stringify(deedData) as json.Unmarshal reads it into a Deed: the keys
\* deedNumber, ownerId and propertyAddress match the struct's tags, the
\* others are dropped and every other field keeps its zero value.
JSON_stringify(deedData) ==
    Deed("", deedData.deedNumber, deedData.ownerId, deedData.propertyAddress, "", "", "")

\* BlockchainService.createDeed: a synthetic transaction in mock mode,
\* otherwise the live call, whose error is rethrown.
BlockchainService_createDeed(ws, mock, deedData, now, unreachable) ==
    LET sim == SubmitTransaction(ws, "CreateDeed",
                   <<Str(deedData.deedNumber), Str(deedData.ownerId),
                     Str(deedData.propertyAddress), Str(deedData.documentHash),
                     Json(JSON_stringify(deedData))>>, now)
    IN  IF mock
        THEN [threw |-> FALSE, transactionId |-> [prefix |-> "mock_tx_", ts |-> now],
              sim |-> Sim("none", Nil, {}, <<>>)]
        ELSE IF unreachable
        THEN [threw |-> TRUE, transactionId |-> [prefix |-> "none", ts |-> 0],
              sim |-> Sim("Unreachable", Nil, {}, <<>>)]
        ELSE IF sim.err # "none"
        THEN [threw |-> TRUE, transactionId |-> [prefix |-> "none", ts |-> 0], sim |-> sim]
        ELSE [threw |-> FALSE, transactionId |-> [prefix |-> "tx_", ts |-> now], sim |-> sim]

\* IPFSService.uploadFile: the object it resolves to, or a throw.
IPFSService_uploadFile(initialized, file, addFails, random) ==
    IF ~initialized
    THEN [kind |-> "upload", threw |-> FALSE, hash |-> random, mock |-> TRUE]
    ELSE IF addFails
    THEN [kind |-> "upload", threw |-> TRUE, hash |-> "", mock |-> FALSE]
    ELSE [kind |-> "upload", threw |-> FALSE, hash |-> Cid[file], mock |-> FALSE]

\* ipfs.add(content, {pin: true}) on the node: the block is stored under its
\* CID and pinned.
AddBlock(store, file) ==
    [blocks |-> store.blocks \cup {file}, pins |-> store.pins \cup {Cid[file]}]

\* A role middleware that lets every authenticated user through.
roleMiddleware_AllowAll(allowedRoles, user) == RoleOf[user] \in {RoleOf[u] : u \in Users}

roleMiddleware(allowedRoles, user) == RoleOf[user] \in allowedRoles

RowsWithNumber(table, number) == {i \in 1..Len(table) : table[i].deed_number = number}

\* The request served last (route, req.user, req.body) with the status code
\* and the JSON document sent back, and the gateway error the handler wrote
\* to the console while serving it.
HttpResponse(route, user, body, status, error, deed, logged) ==
    [route |-> route, user |-> user, deed_number |-> body.deed_number, body |-> body,
     status |-> status, error |-> error, deed |-> deed, logged |-> logged,
     json |-> IF status = 201
              THEN [message |-> "Deed created successfully", deed |-> deed]
              ELSE [error |-> error]]

\* Variant that lets a ledger error reach the route's outer catch.
MirrorToLedger_Rethrow(row, chain) ==
    IF chain.threw
    THEN [status |-> 500, error |-> "Failed to create deed", deed |-> row]
    ELSE [status |-> 201, error |-> "none",
          deed |-> [row EXCEPT !.blockchain_transaction_id = chain.transactionId]]

\* The ledger leg of POST /create: the transaction id is written to the row
\* when the call returns; when it throws the error is logged and dropped.
MirrorToLedger(row, chain) ==
    IF chain.threw
    THEN [status |-> 201, error |-> "none", deed |-> row]
    ELSE [status |-> 201, error |-> "none",
          deed |-> [row EXCEPT !.blockchain_transaction_id = chain.transactionId]]

\* The callers of POST /create: a citizen and a government official.
CoordUsers == {"u1", "u2"}

CreateBodies ==
    [deed_number : DeedNumbers \cup {""}, owner_id : {"u1", "u4"},
     property_address : {"a1"}, file : Files \cup {NoFile}]

\* POST /create of the deed routes.
CreateDeedRoute ==
    \E user \in CoordUsers, body \in CreateBodies, random \in RandomBytes,
       insertFails \in BOOLEAN :
      \E addFails \in (IF ipfsInitialized /\ body.file # NoFile THEN BOOLEAN ELSE {FALSE}),
         unreachable \in (IF mockMode THEN {FALSE} ELSE BOOLEAN) :
        LET document_hash == IF body.file # NoFile THEN Sha256[body.file] ELSE Null
            upload == IPFSService_uploadFile(ipfsInitialized, body.file, addFails, random)
            ipfs_hash == IF body.file # NoFile /\ ~upload.threw THEN upload ELSE Nil
            row == [id |-> Len(deeds) + 1, deed_number |-> body.deed_number,
                    owner_id |-> body.owner_id,
                    property_address |-> body.property_address,
                    document_hash |-> document_hash, ipfs_hash |-> ipfs_hash,
                    blockchain_transaction_id |-> [prefix |-> "none", ts |-> 0],
                    verification_status |-> "pending", created_by |-> user,
                    verified_by |-> Null]
            deedData == [deedNumber |-> body.deed_number, ownerId |-> body.owner_id,
                         propertyAddress |-> body.property_address,
                         documentHash |-> document_hash, createdBy |-> user]
            chain == BlockchainService_createDeed(worldState, mockMode, deedData, clock,
                                                  unreachable)
            mirrored == MirrorToLedger(row, chain)
            reply(status, error, deed) ==
                HttpResponse("POST /create", user, body, status, error, deed, "none")
        IN  /\ Len(deeds) < Cardinality(DeedNumbers)
                 \/ RowsWithNumber(deeds, body.deed_number) # {}
                 \/ body.deed_number = ""
                 \/ ~roleMiddleware({"government_official", "legal_professional"}, user)
            /\ IF ~roleMiddleware({"government_official", "legal_professional"}, user)
               THEN /\ http' = reply(403, "Insufficient permissions", Nil)
                    /\ UNCHANGED <<deeds, ledgerVars>>
               ELSE IF body.deed_number = ""
               THEN /\ http' = reply(400, "ValidationError", Nil)
                    /\ UNCHANGED <<deeds, ledgerVars>>
               ELSE IF RowsWithNumber(deeds, body.deed_number) # {}
               THEN /\ http' = reply(409, "Conflict", Nil)
                    /\ UNCHANGED <<deeds, ledgerVars>>
               ELSE IF insertFails
               THEN /\ http' = reply(500, "Failed to create deed", Nil)
                    /\ UNCHANGED <<deeds, ledgerVars>>
               ELSE /\ deeds' = Append(deeds, mirrored.deed)
                    /\ Commit(chain.sim)
                    /\ UNCHANGED <<response, lastCreated>>
                    /\ http' = HttpResponse("POST /create", user, body, mirrored.status,
                                            mirrored.error,
                                            IF mirrored.status = 201 THEN mirrored.deed
                                            ELSE Nil,
                                            IF chain.threw THEN chain.sim.err ELSE "none")
            /\ ipfs' = IF /\ roleMiddleware({"government_official", "legal_professional"},
                                              user)
                           /\ body.deed_number # ""
                           /\ RowsWithNumber(deeds, body.deed_number) = {}
                           /\ body.file # NoFile
                           /\ ipfsInitialized
                           /\ ~upload.threw
                        THEN AddBlock(ipfs, body.file)
                        ELSE ipfs
            /\ UNCHANGED <<clock, attempts, mockMode, ipfsInitialized, land_deeds,
                           verification_requests, verification_logs, inflight, procVars,
                           storeCalls>>

\* BlockchainService.initialize: mockMode afterwards. It is set when the
\* connection profile is missing or connecting throws, and left unset (falsy)
\* when the gateway connects.
BlockchainService_initialize(profileExists, connectThrows) ==
    IF ~profileExists THEN TRUE
    ELSE IF connectThrows THEN TRUE
    ELSE FALSE

\* The backend after startup: each service either connected or in mock mode.
InitCoord ==
    /\ InitLedger
    /\ deeds = <<>>
    /\ mockMode \in {BlockchainService_initialize(p, c) : p \in BOOLEAN, c \in BOOLEAN}
    /\ ipfsInitialized \in BOOLEAN
    /\ land_deeds = <<>>
    /\ verification_requests = <<>>
    /\ verification_logs = <<>>
    /\ inflight = <<>>
    /\ ipfs = NoBlocks
    /\ storeCalls = <<>>
    /\ server = "listening"
    /\ fabric = NoFabric
    /\ http = NoRequest

NextCoord ==
    \/ CreateDeedRoute
    \/ Tick

SpecCoord == InitCoord /\ [][NextCoord]_vars

LedgerDeedsWithNumber(number) ==
    {k \in StoredDeedKeys : worldState[k].DeedNumber = number}

\* C4 (as claimed): when createDeed answers 409 Conflict for a deed number,
\* the relational store holds exactly one deed with that number and the
\* ledger holds exactly one record for it.
C4_ConflictLeavesOneRecordEach ==
    (http.route = "POST /create" /\ http.status = 409) =>
        /\ Cardinality(RowsWithNumber(deeds, http.deed_number)) = 1
        /\ Cardinality(LedgerDeedsWithNumber(http.deed_number)) = 1

\* The relational half of C4, which the code keeps.
ConflictLeavesOneRow ==
    (http.route = "POST /create" /\ http.status = 409) =>
        Cardinality(RowsWithNumber(deeds, http.deed_number)) = 1

\* A POST /create step that inserted a row while the gateway was live, that
\* is, while its ledger call fails.
CreatedWithoutLedger ==
    /\ CallStep
    /\ http'.route = "POST /create"
    /\ ~mockMode
    /\ Len(deeds') = Len(deeds) + 1

\* C16: when validation, the uniqueness check and the insert succeed but the
\* ledger call fails, createDeed answers 201 with the deed, and the stored
\* row has every supplied field and the SHA-256 of the attachment.
C16_LedgerFailureStillCreates ==
    [][CreatedWithoutLedger =>
        LET row == deeds'[Len(deeds')]
            body == http'.body
        IN  /\ http'.status = 201
            /\ http'.json.deed = row
            /\ row.deed_number = body.deed_number
            /\ row.owner_id = body.owner_id
            /\ row.property_address = body.property_address
            /\ row.created_by = http'.user
            /\ row.document_hash = IF body.file = NoFile THEN Null ELSE Sha256[body.file]
            /\ row.verification_status = "pending"
            /\ row.blockchain_transaction_id.prefix = "none"
            /\ worldState' = worldState
            /\ SubSeq(deeds', 1, Len(deeds)) = deeds]_vars

\* A deed with an attachment has been created while the ledger call failed.
C16_Witness ==
    /\ http.route = "POST /create"
    /\ http.status = 201
    /\ ~mockMode
    /\ http.body.file # NoFile
    /\ \E i \in 1..Len(deeds) :
           /\ deeds[i] = http.deed
           /\ deeds[i].blockchain_transaction_id.prefix = "none"
           /\ deeds[i].document_hash = Sha256[http.body.file]

\* A POST /create step with an attachment that inserted a row while the
\* document store was in mock mode or its upload failed.
CreatedWithDegradedStore ==
    /\ CallStep
    /\ http'.route = "POST /create"
    /\ http'.body.file # NoFile
    /\ Len(deeds') = Len(deeds) + 1
    /\ ~ipfsInitialized \/ deeds'[Len(deeds')].ipfs_hash = Nil

\* What in a reply can tell the caller that the document store was degraded:
\* a flag of its own, or the mock marker of the upload result in the deed.
DocumentDegradedFlag(json) ==
    \/ "degraded" \in DOMAIN json /\ json.degraded = TRUE
    \/ "deed" \in DOMAIN json /\ json.deed.ipfs_hash # Nil /\ json.deed.ipfs_hash.mock

\* C17 (as claimed): with the document store in mock or failing mode,
\* createDeed with an attachment still succeeds, the stored document hash is
\* the SHA-256 of the attachment, and the response is flagged as degraded.
C17_DegradedStoreFlagged ==
    [][CreatedWithDegradedStore =>
        /\ http'.status = 201
        /\ deeds'[Len(deeds')].document_hash = Sha256[http'.body.file]
        /\ DocumentDegradedFlag(http'.json)]_vars

\* The part of C17 the route keeps: the deed is created with the right hash.
DegradedStoreStillCreates ==
    [][CreatedWithDegradedStore =>
        /\ http'.status = 201
        /\ deeds'[Len(deeds')].document_hash = Sha256[http'.body.file]]_vars

\* A POST /create step whose live ledger call raised a connectivity error.
ConnectivityErrorStep ==
    /\ CallStep
    /\ http'.route = "POST /create"
    /\ http'.logged = "Unreachable"
    /\ Len(deeds') = Len(deeds) + 1

\* C19 (as claimed): once connectivity has failed, at initialization or on a
\* later live call, the gateway is in mock mode from then on, and that call
\* and every later one are answered by the mock implementation.
C19_FallsBackToMock ==
    [][/\ mockMode => mockMode'
       /\ ConnectivityErrorStep =>
              /\ mockMode'
              /\ deeds'[Len(deeds')].blockchain_transaction_id.prefix = "mock_tx_"]_vars

\* The half of C19 that holds: mock mode, once entered, is never left, and a
\* gateway in mock mode answers createDeed with a synthetic transaction.
MockModeIsPermanent ==
    [][/\ mockMode => mockMode'
       /\ (CallStep /\ http'.route = "POST /create" /\ mockMode
             /\ Len(deeds') = Len(deeds) + 1) =>
              deeds'[Len(deeds')].blockchain_transaction_id.prefix = "mock_tx_"]_vars

\* ------------------------------------------ verification workflow (SpecVerif)
MaxRequests == 2

RequestTypes == {"ownership", "history"}
LandDeedIds == {"ld1", "ld2"}
VerifUsers == {"u1", "u2"}
Decisions == {"approved", "rejected"}
ResponseDetailsOf == [approved |-> "ok", rejected |-> Null, bogus |-> Null]

\* The land_deeds rows the verification routes read; no route here writes them.
LandDeedRows ==
    << [id |-> "ld1", deed_number |-> "n1", owner_id |-> "u1",
        verification_status |-> "pending"],
       [id |-> "ld2", deed_number |-> "n2", owner_id |-> "u4",
        verification_status |-> "pending"] >>

\* requireCitizen lets every authenticated role through; the handler itself
\* tells owners, citizens and officials apart.
requireCitizen(user) == RoleOf[user] \in {RoleOf[u] : u \in Users}

\* requireGovernmentOfficial: government officials and bank officials only.
requireGovernmentOfficial(user) ==
    RoleOf[user] \in {"government_official", "bank_official"}

SelectLandDeed(table, deedId) == {i \in 1..Len(table) : table[i].id = deedId}

PendingFor(requests, deedId, requestType) ==
    {i \in 1..Len(requests) : /\ requests[i].deed_id = deedId
                              /\ requests[i].request_type = requestType
                              /\ requests[i].status = "pending"}

\* The inputs of a call: req.user, body.deedId, body.requestType, body.status.
Req(user, deedId, requestType, decision) ==
    [user |-> user, deedId |-> deedId, requestType |-> requestType, decision |-> decision]

\* The call served last: its inputs, the request id it concerns and the reply.
VerifResponse(route, req, id, status, error) ==
    [route |-> route, req |-> req, id |-> id, status |-> status, error |-> error]

\* Variant without the pending-request lookup of part_003:63-75.
CreateVerificationRequest_NoPendingLookup(table, requests, user, deedId, requestType) ==
    LET found == SelectLandDeed(table, deedId)
        deed == table[CHOOSE i \in found : TRUE]
        row == [id |-> Len(requests) + 1, deed_id |-> deedId, requester_id |-> user,
                request_type |-> requestType, request_details |-> Null,
                status |-> "pending", response_details |-> Null,
                processed_at |-> NoTime, processed_by |-> Null]
    IN  IF ~requireCitizen(user)
        THEN [status |-> 403, error |-> "AccessDenied", requests |-> requests]
        ELSE IF requestType \notin {"ownership", "authenticity", "history"}
        THEN [status |-> 400, error |-> "ValidationError", requests |-> requests]
        ELSE IF found = {}
        THEN [status |-> 404, error |-> "NotFound", requests |-> requests]
        ELSE IF deed.owner_id # user /\ RoleOf[user] = "citizen"
        THEN [status |-> 403, error |-> "AccessDenied", requests |-> requests]
        ELSE [status |-> 201, error |-> "none", requests |-> Append(requests, row)]

\* Variant without the ownership test of part_003:55-61.
CreateVerificationRequest_NoOwnershipTest(table, requests, user, deedId, requestType) ==
    LET found == SelectLandDeed(table, deedId)
        deed == table[CHOOSE i \in found : TRUE]
        row == [id |-> Len(requests) + 1, deed_id |-> deedId, requester_id |-> user,
                request_type |-> requestType, request_details |-> Null,
                status |-> "pending", response_details |-> Null,
                processed_at |-> NoTime, processed_by |-> Null]
    IN  IF ~requireCitizen(user)
        THEN [status |-> 403, error |-> "AccessDenied", requests |-> requests]
        ELSE IF requestType \notin {"ownership", "authenticity", "history"}
        THEN [status |-> 400, error |-> "ValidationError", requests |-> requests]
        ELSE IF found = {}
        THEN [status |-> 404, error |-> "NotFound", requests |-> requests]
        ELSE IF PendingFor(requests, deedId, requestType) # {}
        THEN [status |-> 409, error |-> "Conflict", requests |-> requests]
        ELSE [status |-> 201, error |-> "none", requests |-> Append(requests, row)]

\* POST /request: the reply and the verification_requests table afterwards.
CreateVerificationRequest(table, requests, user, deedId, requestType) ==
    LET found == SelectLandDeed(table, deedId)
        deed == table[CHOOSE i \in found : TRUE]
        row == [id |-> Len(requests) + 1, deed_id |-> deedId, requester_id |-> user,
                request_type |-> requestType, request_details |-> Null,
                status |-> "pending", response_details |-> Null,
                processed_at |-> NoTime, processed_by |-> Null]
    IN  IF ~requireCitizen(user)
        THEN [status |-> 403, error |-> "AccessDenied", requests |-> requests]
        ELSE IF requestType \notin {"ownership", "authenticity", "history"}
        THEN [status |-> 400, error |-> "ValidationError", requests |-> requests]
        ELSE IF found = {}
        THEN [status |-> 404, error |-> "NotFound", requests |-> requests]
        ELSE IF deed.owner_id # user /\ RoleOf[user] = "citizen"
        THEN [status |-> 403, error |-> "AccessDenied", requests |-> requests]
        ELSE IF PendingFor(requests, deedId, requestType) # {}
        THEN [status |-> 409, error |-> "Conflict", requests |-> requests]
        ELSE [status |-> 201, error |-> "none", requests |-> Append(requests, row)]

\* PUT /requests/:id/process: the reply and the table afterwards.
ProcessVerificationRequest(table, requests, user, id, status, responseDetails, now) ==
    IF ~requireGovernmentOfficial(user)
    THEN [status |-> 403, error |-> "AccessDenied", requests |-> requests]
    ELSE IF status \notin {"approved", "rejected"}
    THEN [status |-> 400, error |-> "ValidationError", requests |-> requests]
    ELSE IF \/ id \notin 1..Len(requests)
            \/ SelectLandDeed(table, requests[id].deed_id) = {}
    THEN [status |-> 404, error |-> "NotFound", requests |-> requests]
    ELSE IF requests[id].status # "pending"
    THEN [status |-> 400, error |-> "AlreadyProcessed", requests |-> requests]
    ELSE [status |-> 200, error |-> "none",
          requests |-> [requests EXCEPT ![id] =
                            [@ EXCEPT !.status = status,
                                      !.response_details = responseDetails,
                                      !.processed_at = now,
                                      !.processed_by = user]]]

CreateVerificationRequestRoute ==
    \E user \in VerifUsers, deedId \in LandDeedIds \cup {"ld9"},
       requestType \in RequestTypes \cup {"bogus"} :
        LET out == CreateVerificationRequest(land_deeds, verification_requests, user,
                                             deedId, requestType)
        IN  /\ Len(verification_requests) < MaxRequests \/ out.status # 201
            /\ verification_requests' = out.requests
            /\ http' = VerifResponse("POST /request", Req(user, deedId, requestType, ""),
                                     Len(out.requests),
                                     out.status, out.error)
            /\ UNCHANGED <<ledgerVars, clock, attempts, deeds, mockMode, ipfsInitialized,
                           land_deeds, verification_logs, inflight, procVars, storeVars>>

ProcessVerificationRequestRoute ==
    \E user \in VerifUsers, id \in 1..(MaxRequests + 1), status \in Decisions \cup {"bogus"} :
        LET out == ProcessVerificationRequest(land_deeds, verification_requests, user, id,
                                              status, ResponseDetailsOf[status], clock)
        IN  /\ verification_requests' = out.requests
            /\ http' = VerifResponse("PUT /requests/:id/process",
                                     Req(user, "", "", status), id, out.status, out.error)
            /\ UNCHANGED <<ledgerVars, clock, attempts, deeds, mockMode, ipfsInitialized,
                           land_deeds, verification_logs, inflight, procVars, storeVars>>

InitVerif ==
    /\ InitLedger
    /\ deeds = <<>>
    /\ mockMode = TRUE
    /\ ipfsInitialized = FALSE
    /\ land_deeds = LandDeedRows
    /\ verification_requests = <<>>
    /\ verification_logs = <<>>
    /\ inflight = <<>>
    /\ ipfs = NoBlocks
    /\ storeCalls = <<>>
    /\ server = "listening"
    /\ fabric = NoFabric
    /\ http = NoRequest

\* The routes take their only timestamp from the database, so the clock is
\* left where it is here.
NextVerif ==
    \/ CreateVerificationRequestRoute
    \/ ProcessVerificationRequestRoute

SpecVerif == InitVerif /\ [][NextVerif]_vars

\* The deed status a decision on an ownership or authenticity request calls for.
DeedStatusFor(decision) == IF decision = "approved" THEN "verified" ELSE "rejected"

\* A step that processes, with an elevated role and a valid decision, a
\* request that an earlier call has already decided.
SecondProcessing ==
    /\ CallStep
    /\ http'.route = "PUT /requests/:id/process"
    /\ http'.status \notin {403, 404}
    /\ http'.error # "ValidationError"
    /\ http'.id \in 1..Len(verification_requests)
    /\ verification_requests[http'.id].status \in Decisions

\* C10 (as claimed): processing an already processed VerificationRequest
\* fails with AlreadyProcessed, leaves the request's status, response details,
\* processedAt and processedBy as the first call set them, and the deed's
\* status reflects the first decision and no other.
C10_SecondProcessingRejected ==
    [][SecondProcessing =>
        LET request == verification_requests[http'.id]
            deed == land_deeds'[CHOOSE i \in SelectLandDeed(land_deeds', request.deed_id) : TRUE]
        IN  /\ http'.error = "AlreadyProcessed"
            /\ verification_requests' = verification_requests
            /\ request.request_type \in {"ownership", "authenticity"} =>
                   deed.verification_status = DeedStatusFor(request.status)]_vars

\* The part of C10 the route keeps: the second call is refused and neither
\* the request nor any deed row changes.
SecondProcessingChangesNothing ==
    [][SecondProcessing =>
        /\ http'.error = "AlreadyProcessed"
        /\ http'.status = 400
        /\ verification_requests' = verification_requests
        /\ land_deeds' = land_deeds]_vars

\* A POST /request step by a requester the route lets through, for an
\* existing deed and a valid kind.
AdmittedRequestStep ==
    /\ http'.route = "POST /request"
    /\ http' # http \/ verification_requests' # verification_requests
    /\ http'.status \notin {400, 403, 404}

PendingRow(req, id) ==
    [id |-> id, deed_id |-> req.deedId, requester_id |-> req.user,
     request_type |-> req.requestType, request_details |-> Null, status |-> "pending",
     response_details |-> Null, processed_at |-> NoTime, processed_by |-> Null]

\* C12: creating a request for a (deed, kind) pair that has a pending request
\* fails with Conflict and inserts no row; when the pair has no pending
\* request, in particular once the earlier one has been processed, the new
\* request is accepted and stored as pending.
C12_ConflictWhilePending ==
    [][AdmittedRequestStep =>
        IF PendingFor(verification_requests, http'.req.deedId, http'.req.requestType) # {}
        THEN /\ http'.status = 409
             /\ http'.error = "Conflict"
             /\ verification_requests' = verification_requests
        ELSE /\ http'.status = 201
             /\ verification_requests' =
                    Append(verification_requests,
                           PendingRow(http'.req, Len(verification_requests) + 1))]_vars

\* A second request for a pair has been accepted after the first was processed.
C12_Witness ==
    /\ http.route = "POST /request"
    /\ http.status = 201
    /\ Len(verification_requests) = 2
    /\ verification_requests[1].deed_id = verification_requests[2].deed_id
    /\ verification_requests[1].request_type = verification_requests[2].request_type
    /\ verification_requests[1].status \in Decisions
    /\ verification_requests[2].status = "pending"

\* A POST /request step, whatever its outcome.
RequestStep ==
    /\ http'.route = "POST /request"
    /\ http' # http \/ verification_requests' # verification_requests

OwnsDeed(user, deedId) ==
    \E i \in SelectLandDeed(land_deeds, deedId) : land_deeds[i].owner_id = user

\* C13: a request row is inserted only for an existing deed and a requester
\* who owns it or has a non-citizen role; a citizen who does not own the deed
\* gets AccessDenied (403) and a request for a nonexistent deed gets NotFound
\* (404), for a well-formed body, and in both cases no row is inserted.
C13_OnlyOwnerOrElevated ==
    [][RequestStep =>
        LET req == http'.req
            exists == SelectLandDeed(land_deeds, req.deedId) # {}
            wellFormed == req.requestType \in {"ownership", "authenticity", "history"}
        IN  /\ verification_requests' # verification_requests =>
                   /\ exists
                   /\ OwnsDeed(req.user, req.deedId) \/ RoleOf[req.user] # "citizen"
            /\ (exists /\ ~OwnsDeed(req.user, req.deedId) /\ RoleOf[req.user] = "citizen") =>
                   /\ verification_requests' = verification_requests
                   /\ wellFormed => http'.status = 403 /\ http'.error = "AccessDenied"
            /\ ~exists =>
                   /\ verification_requests' = verification_requests
                   /\ wellFormed => http'.status = 404 /\ http'.error = "NotFound"]_vars

\* A citizen has asked for verification of a deed owned by someone else.
C13_Witness ==
    /\ http.route = "POST /request"
    /\ http.status = 403
    /\ RoleOf[http.req.user] = "citizen"
    /\ SelectLandDeed(land_deeds, http.req.deedId) # {}
    /\ ~OwnsDeed(http.req.user, http.req.deedId)
    /\ \E i \in 1..Len(verification_requests) :
           verification_requests[i].requester_id = http.req.user

\* A PUT /requests/:id/process step that was answered 200.
ProcessedStep ==
    /\ http'.route = "PUT /requests/:id/process"
    /\ http'.status = 200
    /\ verification_requests' # verification_requests

\* The first part of C14, which the route keeps: the request takes the
\* decision and is stamped with the processing time and the processor.
ProcessingStampsRequest ==
    [][ProcessedStep =>
        /\ verification_requests[http'.id].status = "pending"
        /\ verification_requests' =
               [verification_requests EXCEPT ![http'.id] =
                   [@ EXCEPT !.status = http'.req.decision,
                             !.response_details = ResponseDetailsOf[http'.req.decision],
                             !.processed_at = clock,
                             !.processed_by = http'.req.user]]]_vars

\* C14 (as claimed): successfully processing a pending request sets its
\* status to the decision and stamps processedAt and processedBy; for kind
\* ownership or authenticity the referenced deed's verification status moves
\* from pending to verified or rejected and exactly one VerificationLog entry
\* is appended; for kind history the deed and the log are unchanged.
C14_ProcessingMovesDeed ==
    [][ProcessedStep =>
        LET before == verification_requests[http'.id]
            after == verification_requests'[http'.id]
            i == CHOOSE i \in SelectLandDeed(land_deeds, before.deed_id) : TRUE
        IN  /\ before.status = "pending"
            /\ after.status = http'.req.decision
            /\ after.processed_at = clock
            /\ after.processed_by = http'.req.user
            /\ IF before.request_type \in {"ownership", "authenticity"}
               THEN /\ land_deeds[i].verification_status = "pending" =>
                           land_deeds'[i].verification_status = DeedStatusFor(after.status)
                    /\ Len(verification_logs') = Len(verification_logs) + 1
               ELSE /\ land_deeds' = land_deeds
                    /\ verification_logs' = verification_logs]_vars

\* ------------------- verification routes, one database query per step
MaxRaceRequests == 2

Handlers == {"h1", "h2"}
Idle == [route |-> "none", pc |-> "idle", user |-> "", deedId |-> "", requestType |-> "",
         id |-> 0, status |-> ""]

InflightReq(h) ==
    Req(inflight[h].user, inflight[h].deedId, inflight[h].requestType, inflight[h].status)

RaceUnchanged == <<ledgerVars, clock, attempts, deeds, mockMode, ipfsInitialized,
                   land_deeds, verification_logs, storeVars, procVars>>

\* POST /request up to its first query: middleware, validation, then the
\* SELECT of the deed with the ownership test on its result.
BeginCreateRequest(h) ==
    \E user \in {"u1", "u2"}, deedId \in {"ld1", "ld9"}, requestType \in RequestTypes :
        LET found == SelectLandDeed(land_deeds, deedId)
            deed == land_deeds[CHOOSE i \in found : TRUE]
            reply(status, error) ==
                /\ http' = VerifResponse("POST /request", Req(user, deedId, requestType, ""),
                                         0, status, error)
                /\ UNCHANGED inflight
        IN  /\ inflight[h].pc = "idle"
            /\ Len(verification_requests)
                 + Cardinality({g \in Handlers : inflight[g].route = "POST /request"})
                 < MaxRaceRequests
            /\ IF ~requireCitizen(user) THEN reply(403, "AccessDenied")
               ELSE IF found = {} THEN reply(404, "NotFound")
               ELSE IF deed.owner_id # user /\ RoleOf[user] = "citizen"
               THEN reply(403, "AccessDenied")
               ELSE /\ inflight' = [inflight EXCEPT ![h] =
                            [Idle EXCEPT !.route = "POST /request", !.pc = "deedChecked",
                                         !.user = user, !.deedId = deedId,
                                         !.requestType = requestType]]
                    /\ UNCHANGED http
            /\ UNCHANGED <<RaceUnchanged, verification_requests>>

\* POST /request, second query: the SELECT of a pending request for the pair.
CheckPendingRequest(h) ==
    /\ inflight[h].pc = "deedChecked"
    /\ IF PendingFor(verification_requests, inflight[h].deedId, inflight[h].requestType) # {}
       THEN /\ http' = VerifResponse("POST /request", InflightReq(h), 0, 409, "Conflict")
            /\ inflight' = [inflight EXCEPT ![h] = Idle]
       ELSE /\ inflight' = [inflight EXCEPT ![h].pc = "pendingChecked"]
            /\ UNCHANGED http
    /\ UNCHANGED <<RaceUnchanged, verification_requests>>

\* POST /request, third query: the INSERT, then the 201 reply.
InsertRequest(h) ==
    LET row == [id |-> Len(verification_requests) + 1, deed_id |-> inflight[h].deedId,
                requester_id |-> inflight[h].user,
                request_type |-> inflight[h].requestType, request_details |-> Null,
                status |-> "pending", response_details |-> Null,
                processed_at |-> NoTime, processed_by |-> Null]
    IN  /\ inflight[h].pc = "pendingChecked"
        /\ verification_requests' = Append(verification_requests, row)
        /\ http' = VerifResponse("POST /request", InflightReq(h), row.id, 201, "none")
        /\ inflight' = [inflight EXCEPT ![h] = Idle]
        /\ UNCHANGED RaceUnchanged

\* PUT /requests/:id/process up to its first query: middleware, validation,
\* then the SELECT of the request with the pending test on its result.
BeginProcessRequest(h) ==
    \E user \in {"u2"}, id \in 1..MaxRaceRequests, status \in Decisions :
        LET reply(code, error) ==
                /\ http' = VerifResponse("PUT /requests/:id/process", Req(user, "", "", status),
                                         id, code, error)
                /\ UNCHANGED inflight
        IN  /\ inflight[h].pc = "idle"
            /\ IF ~requireGovernmentOfficial(user) THEN reply(403, "AccessDenied")
               ELSE IF id \notin 1..Len(verification_requests) THEN reply(404, "NotFound")
               ELSE IF verification_requests[id].status # "pending"
               THEN reply(400, "AlreadyProcessed")
               ELSE /\ inflight' = [inflight EXCEPT ![h] =
                            [Idle EXCEPT !.route = "PUT /requests/:id/process",
                                         !.pc = "requestChecked", !.user = user,
                                         !.id = id, !.status = status]]
                    /\ UNCHANGED http
            /\ UNCHANGED <<RaceUnchanged, verification_requests>>

\* PUT /requests/:id/process, second query: the UPDATE, then the reply.
UpdateRequest(h) ==
    /\ inflight[h].pc = "requestChecked"
    /\ verification_requests' =
           [verification_requests EXCEPT ![inflight[h].id] =
               [@ EXCEPT !.status = inflight[h].status,
                         !.response_details = ResponseDetailsOf[inflight[h].status],
                         !.processed_at = clock,
                         !.processed_by = inflight[h].user]]
    /\ http' = VerifResponse("PUT /requests/:id/process", InflightReq(h), inflight[h].id,
                             200, "none")
    /\ inflight' = [inflight EXCEPT ![h] = Idle]
    /\ UNCHANGED RaceUnchanged

InitVerifSteps ==
    /\ InitLedger
    /\ deeds = <<>>
    /\ mockMode = TRUE
    /\ ipfsInitialized = FALSE
    /\ land_deeds = LandDeedRows
    /\ verification_requests = <<>>
    /\ verification_logs = <<>>
    /\ inflight = [h \in Handlers |-> Idle]
    /\ ipfs = NoBlocks
    /\ storeCalls = <<>>
    /\ server = "listening"
    /\ fabric = NoFabric
    /\ http = NoRequest

NextVerifSteps ==
    \/ \E h \in Handlers : BeginCreateRequest(h)
    \/ \E h \in Handlers : CheckPendingRequest(h)
    \/ \E h \in Handlers : InsertRequest(h)
    \/ \E h \in Handlers : BeginProcessRequest(h)
    \/ \E h \in Handlers : UpdateRequest(h)
    \/ Tick

SpecVerifSteps == InitVerifSteps /\ [][NextVerifSteps]_vars

\* C11 (as claimed): in every reachable state, whatever the interleaving of
\* the queries of create-request and process-request calls, at most one
\* pending VerificationRequest exists for any (deed, request kind) pair.
C11_OnePendingPerPair ==
    \A deedId \in LandDeedIds, requestType \in RequestTypes :
        Cardinality(PendingFor(verification_requests, deedId, requestType)) <= 1

\* --------------------------------- verification decisions (SpecDecide)
MaxLogs == 2

VerificationResults == {"verified", "rejected"}

\* BlockchainService.verifyDeed: a synthetic record in mock mode, otherwise
\* the live call, whose error is rethrown.
BlockchainService_verifyDeed(ws, mock, deedNumber, verificationData, now, unreachable) ==
    LET sim == SubmitTransaction(ws, "VerifyDeed",
                   <<Str(deedNumber), Str(verificationData.verifierId),
                     Str(verificationData.verificationResult), Json(Nil)>>, now)
    IN  IF mock
        THEN [threw |-> FALSE, sim |-> Sim("none", Nil, {}, <<>>),
              transactionId |-> [prefix |-> "mock_verification_", ts |-> now]]
        ELSE IF unreachable
        THEN [threw |-> TRUE, sim |-> Sim("Unreachable", Nil, {}, <<>>),
              transactionId |-> [prefix |-> "none", ts |-> 0]]
        ELSE IF sim.err # "none"
        THEN [threw |-> TRUE, sim |-> sim, transactionId |-> [prefix |-> "none", ts |-> 0]]
        ELSE [threw |-> FALSE, sim |-> sim, transactionId |-> [prefix |-> "tx_", ts |-> now]]

LogRow(deed_id, verified_by, verification_type, verification_result) ==
    [deed_id |-> deed_id, verified_by |-> verified_by,
     verification_type |-> verification_type, verification_result |-> verification_result]

\* The request served last with the status code and the JSON document sent.
DecisionResponse(route, user, target, result, status, error, json) ==
    [route |-> route, user |-> user, target |-> target, result |-> result,
     status |-> status, error |-> error, json |-> json]

SelectDeed(table, id) == {i \in 1..Len(table) : table[i].id = id}

\* POST /:id/verify of the deed routes.
VerifyDeedRoute ==
    \E user \in Users, id \in 1..2, verification_result \in VerificationResults \cup {"bogus"} :
      \E unreachable \in (IF mockMode THEN {FALSE} ELSE BOOLEAN) :
        LET found == SelectDeed(deeds, id)
            deed == deeds[CHOOSE i \in found : TRUE]
            chain == BlockchainService_verifyDeed(worldState, mockMode, deed.deed_number,
                         [verifierId |-> user, verificationResult |-> verification_result],
                         clock, unreachable)
            reply(status, error) ==
                http' = DecisionResponse("POST /:id/verify", user, id, verification_result,
                            status, error,
                            IF status = 200
                            THEN [message |-> "Deed verification completed successfully",
                                  verification_result |-> verification_result]
                            ELSE [error |-> error])
        IN  /\ IF ~roleMiddleware({"government_official", "legal_professional"}, user)
               THEN /\ reply(403, "Insufficient permissions")
                    /\ UNCHANGED <<deeds, verification_logs, ledgerVars>>
               ELSE IF verification_result \notin {"verified", "rejected"}
               THEN /\ reply(400, "ValidationError")
                    /\ UNCHANGED <<deeds, verification_logs, ledgerVars>>
               ELSE IF found = {}
               THEN /\ reply(404, "Deed not found")
                    /\ UNCHANGED <<deeds, verification_logs, ledgerVars>>
               ELSE /\ Len(verification_logs) < MaxLogs
                    /\ deeds' = [deeds EXCEPT ![CHOOSE i \in found : TRUE] =
                                    [@ EXCEPT !.verification_status = verification_result,
                                              !.verified_by = user]]
                    /\ verification_logs' =
                           Append(verification_logs,
                                  LogRow(id, user, "manual_verification", verification_result))
                    /\ Commit(chain.sim)
                    /\ UNCHANGED <<response, lastCreated>>
                    /\ reply(200, "none")
            /\ UNCHANGED <<clock, attempts, mockMode, ipfsInitialized, land_deeds,
                           verification_requests, inflight, procVars, storeVars>>

\* POST /verify/:deedNumber of the blockchain routes.
BlockchainVerifyRoute ==
    \E user \in Users, deedNumber \in DeedNumbers, verificationResult \in VerificationResults,
       insertFails \in BOOLEAN :
      \E unreachable \in (IF mockMode THEN {FALSE} ELSE BOOLEAN) :
        LET chain == BlockchainService_verifyDeed(worldState, mockMode, deedNumber,
                         [verifierId |-> user, verificationResult |-> verificationResult],
                         clock, unreachable)
            reply(status, error) ==
                http' = DecisionResponse("POST /verify/:deedNumber", user, deedNumber,
                            verificationResult, status, error,
                            IF status = 200
                            THEN [transactionId |-> chain.transactionId, verified |-> TRUE]
                            ELSE [error |-> error])
        IN  /\ IF ~roleMiddleware({"government_official", "bank_official"}, user)
               THEN /\ reply(403, "Insufficient permissions")
                    /\ UNCHANGED <<verification_logs, ledgerVars>>
               ELSE IF chain.threw
               THEN /\ reply(500, "Failed to verify deed on blockchain")
                    /\ UNCHANGED <<verification_logs, ledgerVars>>
               ELSE IF insertFails
               THEN /\ reply(500, "Failed to verify deed on blockchain")
                    /\ Commit(chain.sim)
                    /\ UNCHANGED <<verification_logs, response, lastCreated>>
               ELSE /\ Len(verification_logs) < MaxLogs
                    /\ verification_logs' =
                           Append(verification_logs,
                                  LogRow(deedNumber, user, "blockchain_verification",
                                         verificationResult))
                    /\ Commit(chain.sim)
                    /\ UNCHANGED <<response, lastCreated>>
                    /\ reply(200, "none")
            /\ UNCHANGED <<clock, attempts, deeds, mockMode, ipfsInitialized, land_deeds,
                           verification_requests, inflight, procVars, storeVars>>

\* The row POST /create stores for a deed without an attachment.
SeedRow(id, number, user, mock) ==
    [id |-> id, deed_number |-> number, owner_id |-> "u1", property_address |-> "a1",
     document_hash |-> Null, ipfs_hash |-> Nil,
     blockchain_transaction_id |->
         IF mock THEN [prefix |-> "mock_tx_", ts |-> 0] ELSE [prefix |-> "none", ts |-> 0],
     verification_status |-> "pending", created_by |-> user, verified_by |-> Null]

\* The backend after one deed has been created through POST /create.
InitDecide ==
    /\ InitLedger
    /\ mockMode \in BOOLEAN
    /\ ipfsInitialized \in BOOLEAN
    /\ deeds = <<SeedRow(1, "n1", "u2", mockMode)>>
    /\ land_deeds = <<>>
    /\ verification_requests = <<>>
    /\ verification_logs = <<>>
    /\ inflight = <<>>
    /\ ipfs = NoBlocks
    /\ storeCalls = <<>>
    /\ server = "listening"
    /\ fabric = NoFabric
    /\ http = NoRequest

\* BlockchainService.getDeed: a fixed synthetic deed in mock mode, otherwise
\* the chaincode's GetDeed evaluated with the deed number as its argument.
BlockchainService_getDeed(ws, mock, deedNumber, now, unreachable) ==
    LET sim == SubmitTransaction(ws, "GetDeed", <<Str(deedNumber)>>, now)
    IN  IF mock
        THEN [threw |-> FALSE, err |-> "none",
              ret |-> [deedNumber |-> deedNumber, owner |-> "Mock Owner",
                       status |-> "verified"]]
        ELSE IF unreachable
        THEN [threw |-> TRUE, err |-> "Unreachable", ret |-> Nil]
        ELSE IF sim.err # "none"
        THEN [threw |-> TRUE, err |-> sim.err, ret |-> Nil]
        ELSE [threw |-> FALSE, err |-> "none",
              ret |-> [deedNumber |-> sim.ret.DeedNumber, owner |-> sim.ret.OwnerID,
                       status |-> sim.ret.Status]]

\* GET /deed/:deedNumber of the blockchain routes.
BlockchainDeedRoute ==
    \E deedNumber \in DeedNumbers :
      \E unreachable \in (IF mockMode THEN {FALSE} ELSE BOOLEAN) :
        LET out == BlockchainService_getDeed(worldState, mockMode, deedNumber, clock,
                                             unreachable)
        IN  /\ http' = IF out.threw
                       THEN DecisionResponse("GET /deed/:deedNumber", "", deedNumber, "",
                                500, out.err, [error |-> "Failed to get deed from blockchain"])
                       ELSE DecisionResponse("GET /deed/:deedNumber", "", deedNumber, "",
                                200, "none", out.ret)
            /\ UNCHANGED <<ledgerVars, clock, attempts, deeds, mockMode, ipfsInitialized,
                           land_deeds, verification_requests, verification_logs, inflight,
                           procVars, storeVars>>

NextDecide ==
    \/ VerifyDeedRoute
    \/ BlockchainVerifyRoute
    \/ BlockchainDeedRoute
    \/ Tick

SpecDecide == InitDecide /\ [][NextDecide]_vars

\* A POST /:id/verify step by a permitted role, with a valid result, on a
\* deed whose verification status is already terminal.
DecisionOnTerminalDeed ==
    /\ CallStep
    /\ http' # http \/ deeds' # deeds \/ verification_logs' # verification_logs
    /\ http'.route = "POST /:id/verify"
    /\ http'.status \notin {400, 403, 404}
    /\ \E i \in SelectDeed(deeds, http'.target) :
           deeds[i].verification_status \in {"verified", "rejected", "transferred"}

\* C15 (as claimed): verifyDeed on a deed whose verification status is
\* verified, rejected or transferred fails with InvalidState and leaves the
\* deed's status and verifier and the verification log unchanged.
C15_TerminalDeedRefusesDecision ==
    [][DecisionOnTerminalDeed =>
        /\ http'.error = "InvalidState"
        /\ deeds' = deeds
        /\ verification_logs' = verification_logs]_vars

\* A step of either decision route, by a permitted caller with a valid body on
\* an existing deed, served while the gateway is live and its call fails.
DecisionWithoutLedger ==
    /\ CallStep
    /\ http' # http \/ deeds' # deeds \/ verification_logs' # verification_logs
    /\ ~mockMode
    /\ \/ http'.route = "POST /:id/verify" /\ http'.status \notin {400, 403, 404}
       \/ /\ http'.route = "POST /verify/:deedNumber"
          /\ roleMiddleware({"government_official", "bank_official"}, http'.user)

\* C18 (as claimed): on the deed verify route and on the blockchain verify
\* route a failure of the ledger call never aborts the operation: the
\* VerificationLog entry is appended and the caller gets a success response.
C18_LedgerFailureNeverAborts ==
    [][DecisionWithoutLedger =>
        /\ http'.status = 200
        /\ Len(verification_logs') = Len(verification_logs) + 1
        /\ verification_logs'[Len(verification_logs')].verification_result = http'.result]_vars

\* The half of C18 that holds: the deed verify route.
DeedVerifySurvivesLedgerFailure ==
    [][(DecisionWithoutLedger /\ http'.route = "POST /:id/verify") =>
        /\ http'.status = 200
        /\ Len(verification_logs') = Len(verification_logs) + 1
        /\ verification_logs'[Len(verification_logs')].verification_result = http'.result]_vars

\* The ledger status a reply carries, if it carries one.
LedgerStatusFlag(json) ==
    IF "ledgerStatus" \in DOMAIN json THEN json.ledgerStatus ELSE "absent"

\* C20 (as claimed): every result of a coordinator operation carries a ledger
\* status flag that is degraded exactly when the gateway served the call in
\* mock mode or the ledger leg failed, and live otherwise. On the deed verify
\* route the gateway is either in mock mode or its call fails, so every
\* successful reply has to be flagged degraded.
C20_ResultsCarryLedgerStatus ==
    (http.route = "POST /:id/verify" /\ http.status = 200) =>
        LedgerStatusFlag(http.json) = "degraded"

\* C21 (as claimed): getDeed in mock mode fails with NotFound for a deed
\* number that was never created, as the live ledger does.
C21_MockGetDeedNotFound ==
    (/\ http.route = "GET /deed/:deedNumber"
     /\ mockMode
     /\ RowsWithNumber(deeds, http.target) = {}) =>
        /\ http.status # 200
        /\ http.error = "NotFound"

\* What the live gateway answers for the same number: an error.
LiveGetDeedFailsForUnknownNumber ==
    (/\ http.route = "GET /deed/:deedNumber"
     /\ ~mockMode
     /\ RowsWithNumber(deeds, http.target) = {}) =>
        http.status = 500

\* ---------------------------------------------------------------------------
\* Document Store: IPFSService called directly (backend/src/services/IPFSService.js)
\* ---------------------------------------------------------------------------

MaxStoreCalls == 2

\* Addresses a caller may present: the CID of a stored file, a mock hash, and
\* one that no backend ever produced.
StoreAddresses == {Cid[f] : f \in Files} \cup RandomBytes \cup {"QmUnknown"}

StoreCall(op, initialized, arg, threw, error, ret) ==
    [op |-> op, mock |-> ~initialized, arg |-> arg, threw |-> threw,
     error |-> error, ret |-> ret]

\* ipfs.cat(ipfsHash): the bytes of the block with that CID, an error otherwise.
BlocksAt(store, ipfsHash) == {f \in store.blocks : Cid[f] = ipfsHash}

IPFSService_getFileBuffer(initialized, store, ipfsHash, catFails) ==
    IF ~initialized
    THEN [threw |-> TRUE, error |-> "IPFS not initialized - cannot retrieve file",
          ret |-> Nil]
    ELSE IF catFails \/ BlocksAt(store, ipfsHash) = {}
    THEN [threw |-> TRUE, error |-> "ipfs.cat", ret |-> Nil]
    ELSE [threw |-> FALSE, error |-> "none",
          ret |-> CHOOSE f \in BlocksAt(store, ipfsHash) : TRUE]

IPFSService_pinFile(initialized, ipfsHash, pinFails) ==
    IF ~initialized
    THEN [threw |-> FALSE, error |-> "none", ret |-> [pinned |-> FALSE, mock |-> TRUE]]
    ELSE IF pinFails
    THEN [threw |-> TRUE, error |-> "ipfs.pin.add", ret |-> Nil]
    ELSE [threw |-> FALSE, error |-> "none", ret |-> [pinned |-> TRUE, mock |-> FALSE]]

IPFSService_unpinFile(initialized, ipfsHash, rmFails) ==
    IF ~initialized
    THEN [threw |-> FALSE, error |-> "none", ret |-> [unpinned |-> FALSE, mock |-> TRUE]]
    ELSE IF rmFails
    THEN [threw |-> TRUE, error |-> "ipfs.pin.rm", ret |-> Nil]
    ELSE [threw |-> FALSE, error |-> "none", ret |-> [unpinned |-> TRUE, mock |-> FALSE]]

StoreUnchanged ==
    UNCHANGED <<ledgerVars, clock, attempts, deeds, mockMode, ipfsInitialized, land_deeds,
                verification_requests, verification_logs, inflight, procVars, http>>

UploadFileCall ==
    /\ Len(storeCalls) < MaxStoreCalls
    /\ \E file \in Files, random \in RandomBytes :
         \E addFails \in (IF ipfsInitialized THEN BOOLEAN ELSE {FALSE}) :
           LET upload == IPFSService_uploadFile(ipfsInitialized, file, addFails, random)
           IN  /\ ipfs' = IF ipfsInitialized /\ ~upload.threw
                          THEN AddBlock(ipfs, file)
                          ELSE ipfs
               /\ storeCalls' = Append(storeCalls,
                                       StoreCall("uploadFile", ipfsInitialized, file,
                                                 upload.threw,
                                                 IF upload.threw THEN "ipfs.add" ELSE "none",
                                                 upload))
    /\ StoreUnchanged

GetFileBufferCall ==
    /\ Len(storeCalls) < MaxStoreCalls
    /\ \E ipfsHash \in StoreAddresses :
         \E catFails \in (IF ipfsInitialized THEN BOOLEAN ELSE {FALSE}) :
           LET got == IPFSService_getFileBuffer(ipfsInitialized, ipfs, ipfsHash, catFails)
           IN  storeCalls' = Append(storeCalls,
                                    StoreCall("getFileBuffer", ipfsInitialized, ipfsHash,
                                              got.threw, got.error, got.ret))
    /\ UNCHANGED ipfs
    /\ StoreUnchanged

\* ipfs.pin.rm fails on its own account when the CID is not pinned.
PinFileCall ==
    /\ Len(storeCalls) < MaxStoreCalls
    /\ \E ipfsHash \in StoreAddresses :
         \E pinFails \in (IF ~ipfsInitialized THEN {FALSE}
                          ELSE IF BlocksAt(ipfs, ipfsHash) = {} THEN {TRUE}
                          ELSE BOOLEAN) :
           LET pin == IPFSService_pinFile(ipfsInitialized, ipfsHash, pinFails)
           IN  /\ ipfs' = IF ipfsInitialized /\ ~pin.threw
                          THEN [ipfs EXCEPT !.pins = @ \cup {ipfsHash}]
                          ELSE ipfs
               /\ storeCalls' = Append(storeCalls,
                                       StoreCall("pinFile", ipfsInitialized, ipfsHash,
                                                 pin.threw, pin.error, pin.ret))
    /\ StoreUnchanged

UnpinFileCall ==
    /\ Len(storeCalls) < MaxStoreCalls
    /\ \E ipfsHash \in StoreAddresses :
         \E rmFails \in (IF ~ipfsInitialized THEN {FALSE}
                         ELSE IF ipfsHash \notin ipfs.pins THEN {TRUE}
                         ELSE BOOLEAN) :
           LET unpin == IPFSService_unpinFile(ipfsInitialized, ipfsHash, rmFails)
           IN  /\ ipfs' = IF ipfsInitialized /\ ~unpin.threw
                          THEN [ipfs EXCEPT !.pins = @ \ {ipfsHash}]
                          ELSE ipfs
               /\ storeCalls' = Append(storeCalls,
                                       StoreCall("unpinFile", ipfsInitialized, ipfsHash,
                                                 unpin.threw, unpin.error, unpin.ret))
    /\ StoreUnchanged

\* IPFSService.initialize has run: the node was reachable or it was not, and
\* nothing sets `initialized` again.
InitStore ==
    /\ InitLedger
    /\ deeds = <<>>
    /\ mockMode \in BOOLEAN
    /\ ipfsInitialized \in BOOLEAN
    /\ land_deeds = <<>>
    /\ verification_requests = <<>>
    /\ verification_logs = <<>>
    /\ inflight = <<>>
    /\ ipfs = NoBlocks
    /\ storeCalls = <<>>
    /\ server = "listening"
    /\ fabric = NoFabric
    /\ http = NoRequest

NextStore ==
    \/ UploadFileCall
    \/ GetFileBufferCall
    \/ PinFileCall
    \/ UnpinFileCall

SpecStore == InitStore /\ [][NextStore]_vars

\* C22: in mock mode, the address returned by an upload is accepted by a later
\* getFileBuffer, which returns exactly the bytes that were uploaded, and a
\* getFileBuffer of an address this backend never produced fails with NotFound.
MockProduced(j) ==
    {i \in 1..(j - 1) : /\ storeCalls[i].op = "uploadFile"
                        /\ ~storeCalls[i].threw
                        /\ storeCalls[i].ret.hash = storeCalls[j].arg}

C22_MockRoundTrip ==
    \A j \in 1..Len(storeCalls) :
        (storeCalls[j].op = "getFileBuffer" /\ storeCalls[j].mock)
            => IF MockProduced(j) # {}
               THEN /\ ~storeCalls[j].threw
                    /\ \E i \in MockProduced(j) : storeCalls[j].ret = storeCalls[i].arg
               ELSE storeCalls[j].threw /\ storeCalls[j].error = "NotFound"

\* The mock backend refuses the address it has just handed out.
MockGetRefusesOwnAddress ==
    \E j \in 1..Len(storeCalls) :
        /\ storeCalls[j].op = "getFileBuffer"
        /\ storeCalls[j].mock
        /\ MockProduced(j) # {}
        /\ storeCalls[j].threw

\* C29: pinFile and unpinFile never throw, whether the service is live or in
\* mock mode; a backend error yields a returned, non-fatal result.
C29_PinNeverThrows ==
    \A j \in 1..Len(storeCalls) :
        storeCalls[j].op \in {"pinFile", "unpinFile"} => ~storeCalls[j].threw

\* A live pin or unpin on which the node reports an error throws it on.
LivePinThrows ==
    \E j \in 1..Len(storeCalls) :
        /\ storeCalls[j].op \in {"pinFile", "unpinFile"}
        /\ ~storeCalls[j].mock
        /\ storeCalls[j].threw

\* ---------------------------------------------------------------------------
\* fabricService: the coordinator's transfer call (backend/src/services/fabricService.js)
\* ---------------------------------------------------------------------------

\* What the last fabricService call did. `degraded` is whether its result
\* marks the call as served without the ledger; the functions return the
\* chaincode's reply as a string or throw, so nothing ever sets it.
FabricCall(contract, call, args, threw, error) ==
    [contract |-> contract, call |-> call, args |-> args, threw |-> threw,
     error |-> error, degraded |-> FALSE]

\* initializeFabricNetwork: returns early without a contract when the admin
\* identity is missing, rethrows when reading the profile or connecting
\* fails, and keeps the contract otherwise.
InitializeFabricNetwork ==
    /\ ~fabric.contract
    /\ \E adminExists \in BOOLEAN, connectThrows \in BOOLEAN :
         fabric' = IF ~adminExists
                   THEN FabricCall(FALSE, "initializeFabricNetwork", Nil, FALSE, "none")
                   ELSE IF connectThrows
                   THEN FabricCall(FALSE, "initializeFabricNetwork", Nil, TRUE, "connect")
                   ELSE FabricCall(TRUE, "initializeFabricNetwork", Nil, FALSE, "none")
    /\ UNCHANGED <<ledgerVars, clock, attempts, deeds, mockMode, ipfsInitialized, land_deeds,
                   verification_requests, verification_logs, inflight, storeVars, server,
                   http>>

\* transferDeedOwnership(deedId, fromOwnerId, toOwnerId, transferReason)
transferDeedOwnership(contract, ws, deedId, fromOwnerId, toOwnerId, transferReason, now, down) ==
    LET transferData == [deedId |-> deedId, fromOwnerId |-> fromOwnerId,
                         toOwnerId |-> toOwnerId, transferReason |-> transferReason]
        sim == IF ~contract \/ down
               THEN Sim("none", Nil, {}, <<>>)
               ELSE SubmitTransaction(ws, "transferDeed", <<Json(transferData)>>, now)
    IN  [sim |-> sim,
         call |-> IF ~contract
                  THEN FabricCall(contract, "transferDeedOwnership", transferData, TRUE,
                                  "Fabric contract not initialized")
                  ELSE IF down
                  THEN FabricCall(contract, "transferDeedOwnership", transferData, TRUE,
                                  "Unreachable")
                  ELSE FabricCall(contract, "transferDeedOwnership", transferData,
                                  sim.err # "none", sim.err)]

TransferDeedOwnershipCall ==
    /\ \E deedId \in DeedIds, fromOwnerId \in Owners, toOwnerId \in Owners :
         \E unreachable \in (IF fabric.contract THEN BOOLEAN ELSE {FALSE}) :
           LET r == transferDeedOwnership(fabric.contract, worldState, deedId, fromOwnerId,
                                          toOwnerId, "sale", clock, unreachable)
           IN  /\ Commit(r.sim)
               /\ fabric' = r.call
    /\ UNCHANGED <<response, lastCreated, clock, attempts, deeds, mockMode, ipfsInitialized,
                   land_deeds, verification_requests, verification_logs, inflight, storeVars,
                   server, http>>

\* The relational row of deed d1, owned by o1.
FabricSeedRow ==
    [SeedRow(1, "n1", "u2", FALSE) EXCEPT !.id = "d1", !.owner_id = "o1"]

InitFabric ==
    /\ InitLedger
    /\ deeds = <<FabricSeedRow>>
    /\ mockMode = FALSE
    /\ ipfsInitialized = FALSE
    /\ land_deeds = <<>>
    /\ verification_requests = <<>>
    /\ verification_logs = <<>>
    /\ inflight = <<>>
    /\ ipfs = NoBlocks
    /\ storeCalls = <<>>
    /\ server = "listening"
    /\ fabric = NoFabric
    /\ http = NoRequest

NextFabric ==
    \/ SubmitCreateDeed
    \/ InitializeFabricNetwork
    \/ TransferDeedOwnershipCall

SpecFabric == InitFabric /\ [][NextFabric]_vars

TransferCallStep == fabric'.call = "transferDeedOwnership" /\ fabric' # fabric

LedgerOwnerDiffers(deedId, fromOwnerId) ==
    /\ DeedExists(worldState, deedId)
    /\ GetDeed(worldState, deedId).ret.OwnerID # fromOwnerId

RelationalOwnerIs(deedId, fromOwnerId) ==
    \E i \in 1..Len(deeds) : deeds[i].id = deedId /\ deeds[i].owner_id = fromOwnerId

\* C23: with a live contract a transfer the ledger refuses for its from-owner
\* fails and leaves the owner as it was, in the relational row and on the
\* ledger; without a contract (degraded) a transfer whose from-owner is the
\* relational owner succeeds and its result is flagged degraded.
C23_TransferFollowsGatewayMode ==
    [][TransferCallStep =>
         LET a == fabric'.args IN
         /\ (fabric.contract /\ LedgerOwnerDiffers(a.deedId, a.fromOwnerId))
                => /\ fabric'.threw
                   /\ deeds' = deeds
                   /\ worldState' = worldState
         /\ (~fabric.contract /\ RelationalOwnerIs(a.deedId, a.fromOwnerId))
                => /\ ~fabric'.threw
                   /\ fabric'.degraded]_vars

\* Live case alone: the refused transfer fails and moves nothing.
LiveMismatchFailsTransfer ==
    [][(TransferCallStep /\ fabric.contract
          /\ LedgerOwnerDiffers(fabric'.args.deedId, fabric'.args.fromOwnerId))
         => (fabric'.threw /\ deeds' = deeds /\ worldState' = worldState)]_vars

\* ---------------------------------------------------------------------------
\* Ledger statistics (land_registry.go, GetDeedCount and GetDeedStats)
\* ---------------------------------------------------------------------------

\* Values PutState stored as marshalled JSON; the deed-number index holds the
\* raw bytes of a deed identifier.
IsJson(value) == value.kind \in {"deed", "transfer"}

\* The query {"selector":{}}.
EmptySelector == [status |-> "<any>"]

\* GetQueryResult(queryString): the keys of the state database the selector
\* matches. {"selector":{}} puts no condition on a document, so it matches
\* deeds and transfer records alike, and the index entries too when the state
\* database returns non-JSON values to a rich query; {"selector":{"status":s}}
\* matches the JSON documents whose status field is s.
GetQueryResult(ws, selector, binaryMatched) ==
    {k \in DOMAIN ws :
        IF selector = EmptySelector
        THEN IsJson(ws[k]) \/ binaryMatched
        ELSE /\ IsJson(ws[k])
             /\ "Status" \in DOMAIN ws[k]
             /\ ws[k].Status = selector.status}

GetDeedCount(ws, binaryMatched) == Cardinality(GetQueryResult(ws, EmptySelector, binaryMatched))

QueryDeedsByStatus(ws, status) == GetQueryResult(ws, [status |-> status], FALSE)

GetDeedStats(ws, binaryMatched) ==
    Sim("none",
        [totalDeeds |-> GetDeedCount(ws, binaryMatched),
         deeds_pending |-> Cardinality(QueryDeedsByStatus(ws, "pending")),
         deeds_verified |-> Cardinality(QueryDeedsByStatus(ws, "verified")),
         deeds_rejected |-> Cardinality(QueryDeedsByStatus(ws, "rejected")),
         deeds_transferred |-> Cardinality(QueryDeedsByStatus(ws, "transferred"))],
        {}, <<>>)

EvaluateGetDeedStats ==
    \E binaryMatched \in BOOLEAN :
        /\ response' = Response("GetDeedStats", Nil, "", "", NoUpdates, Nil,
                                GetDeedStats(worldState, binaryMatched), <<>>)
        /\ UNCHANGED <<worldState, historyDb, clock, committed, lastCreated, attempts, appVars>>

NextStats ==
    \/ SubmitCreateDeed
    \/ SubmitUpdateDeed
    \/ SubmitTransferDeed
    \/ EvaluateGetDeedStats

SpecStats == Init /\ [][NextStats]_vars

\* The deed records the ledger stores, and those of one status.
StoredDeeds == {k \in DOMAIN worldState : worldState[k].kind = "deed"}

StoredDeedsWithStatus(status) == {k \in StoredDeeds : worldState[k].Status = status}

\* C24: whatever CreateDeed, UpdateDeed and TransferDeed calls came before,
\* GetDeedStats returns a total equal to the number of stored deed records,
\* each of its four per-status counts equals the number of deeds with that
\* status, and the four counts sum to the total.
C24_StatsMatchStoredDeeds ==
    response.op = "GetDeedStats" =>
        LET stats == response.ret IN
        /\ stats.totalDeeds = Cardinality(StoredDeeds)
        /\ stats.deeds_pending = Cardinality(StoredDeedsWithStatus("pending"))
        /\ stats.deeds_verified = Cardinality(StoredDeedsWithStatus("verified"))
        /\ stats.deeds_rejected = Cardinality(StoredDeedsWithStatus("rejected"))
        /\ stats.deeds_transferred = Cardinality(StoredDeedsWithStatus("transferred"))
        /\ stats.totalDeeds = stats.deeds_pending + stats.deeds_verified
                                + stats.deeds_rejected + stats.deeds_transferred

\* The per-status counts alone do match the stored deeds.
StatusCountsMatchStoredDeeds ==
    response.op = "GetDeedStats" =>
        \A status \in Statuses :
            Cardinality(QueryDeedsByStatus(worldState, status))
                = Cardinality(StoredDeedsWithStatus(status))

\* When only JSON documents are matched, the total is off by exactly the
\* transfer records.
TotalCountsTransfers ==
    response.op = "GetDeedStats" =>
        response.ret.totalDeeds >= Cardinality(StoredDeeds)
            + Cardinality({k \in DOMAIN worldState : worldState[k].kind = "transfer"})

\* ---------------------------------------------------------------------------
\* Ledger: what TransferDeed and UpdateDeed write, and what they leave alone
\* ---------------------------------------------------------------------------

\* A TransferDeed call on a stored deed whose owner is the transfer's
\* from-owner.
TransferByOwnerStep ==
    /\ CallStep
    /\ response'.op = "TransferDeed"
    /\ DeedExists(worldState, response'.id)
    /\ worldState[DeedKey(response'.id)].OwnerID = response'.transfer.FromOwnerID

\* C25: a TransferDeed whose from-owner is the deed's current owner succeeds
\* (unless the ledger itself refuses a write), sets the deed's owner to the
\* to-owner and its status to transferred, and stores a Transfer record
\* holding the deed identifier, from-owner, to-owner and reason.
C25_TransferByOwnerMoves ==
    [][(TransferByOwnerStep /\ response'.err # "PutStateFailed")
         => LET t == response'.transfer
                transferID == TransferKey(t.DeedID, clock)
            IN  /\ response'.err = "none"
                /\ worldState'[DeedKey(t.DeedID)].OwnerID = t.ToOwnerID
                /\ worldState'[DeedKey(t.DeedID)].Status = "transferred"
                /\ transferID \in DOMAIN worldState'
                /\ worldState'[transferID].kind = "transfer"
                /\ worldState'[transferID].DeedID = t.DeedID
                /\ worldState'[transferID].FromOwnerID = t.FromOwnerID
                /\ worldState'[transferID].ToOwnerID = t.ToOwnerID
                /\ worldState'[transferID].TransferReason = t.TransferReason]_vars

C25_Witness ==
    /\ response.op = "TransferDeed"
    /\ response.err = "none"
    /\ response.transfer.FromOwnerID # response.transfer.ToOwnerID
    /\ worldState[DeedKey(response.id)].OwnerID = response.transfer.ToOwnerID
    /\ worldState[DeedKey(response.id)].Status = "transferred"
    /\ TransferKey(response.id, clock) \in DOMAIN worldState

\* The deed-number index entries of a ledger state.
IndexEntries(ws) ==
    [k \in {j \in DOMAIN ws : j.ns = "deedNumber"} |-> ws[k]]

C27_UpdateAppliesPresentFields ==
    [][(CallStep /\ response'.op = "UpdateDeed") =>
         LET id == response'.id
             u == response'.updates
         IN  IF ~DeedExists(worldState, id)
             THEN /\ response'.err = "NotFound"
                  /\ worldState' = worldState
                  /\ historyDb' = historyDb
             ELSE response'.err = "none" =>
                    LET before == worldState[DeedKey(id)]
                        after == worldState'[DeedKey(id)]
                    IN  /\ after.Status
                             = IF u.status # Absent THEN u.status ELSE before.Status
                        /\ after.VerificationStatus
                             = IF u.verificationStatus # Absent THEN u.verificationStatus
                               ELSE before.VerificationStatus
                        /\ after.VerifiedBy
                             = IF u.verifiedBy # Absent THEN u.verifiedBy
                               ELSE before.VerifiedBy
                        /\ after.VerifiedAt
                             = IF u.verifiedBy # Absent THEN clock
                               ELSE before.VerifiedAt]_vars

C27_Witness ==
    /\ response.op = "UpdateDeed"
    /\ response.err = "none"
    /\ response.updates.status # Absent
    /\ response.updates.verifiedBy = Absent
    /\ worldState[DeedKey(response.id)].VerifiedAt # NoTime
    /\ worldState[DeedKey(response.id)].VerifiedAt < clock
    /\ worldState[DeedKey(response.id)].UpdatedAt = clock

\* ---------------------------------------------------------------------------
\* Deed routes behind the role middleware (routes/deeds.js)
\* ---------------------------------------------------------------------------

MaxGateRows == 2

\* Requests are followed while the deeds and verification_logs tables
\* together hold fewer than MaxGateRows rows.
GateOpen == Len(deeds) + Len(verification_logs) < MaxGateRows

NextGate ==
    \/ GateOpen /\ CreateDeedRoute
    \/ GateOpen /\ VerifyDeedRoute

SpecGate == InitCoord /\ [][NextGate]_vars

DeedMutationRoutes == {"POST /create", "POST /:id/verify"}

\* C28: a create or verify request from a user whose role is neither
\* government_official nor legal_professional is answered 403, and leaves the
\* relational tables, the IPFS node and the ledger as they were.
C28_RoleGate ==
    [][(/\ http'.route \in DeedMutationRoutes
        /\ RoleOf[http'.user] \notin {"government_official", "legal_professional"})
         => /\ http'.status = 403
            /\ deeds' = deeds
            /\ verification_logs' = verification_logs
            /\ land_deeds' = land_deeds
            /\ verification_requests' = verification_requests
            /\ ipfs' = ipfs
            /\ worldState' = worldState
            /\ historyDb' = historyDb]_vars

C28_Witness ==
    /\ http.route = "POST /:id/verify"
    /\ http.status = 403
    /\ RoleOf[http.user] = "bank_official"
    /\ http.target \in {deeds[i].id : i \in 1..Len(deeds)}
    /\ http.result = "verified"
    /\ \E i \in 1..Len(deeds) : deeds[i].ipfs_hash # Nil

\* ---------------------------------------------------------------------------
\* Startup (backend/server.js, startServer)
\* ---------------------------------------------------------------------------

MaxServed == 1

\* IPFSService.initialize with its catch rethrowing the connection error.
IPFSService_initialize_Rethrow(versionFails) ==
    [threw |-> versionFails, initialized |-> ~versionFails]

\* IPFSService.initialize: `initialized` afterwards; a failing require, create
\* or version() is caught and leaves the service in mock mode.
IPFSService_initialize(versionFails) ==
    [threw |-> FALSE, initialized |-> ~versionFails]

\* await DatabaseService.initialize(): it rethrows its error, and startServer's
\* catch ends the process.
DatabaseInitialize ==
    /\ server = "starting"
    /\ \E initFails \in BOOLEAN :
         server' = IF initFails THEN "exited" ELSE "databaseConnected"
    /\ UNCHANGED <<ledgerVars, clock, attempts, deeds, mockMode, ipfsInitialized, land_deeds,
                   verification_requests, verification_logs, inflight, storeVars, fabric,
                   http>>

\* await BlockchainService.initialize()
BlockchainInitialize ==
    /\ server = "databaseConnected"
    /\ \E profileExists \in BOOLEAN, connectThrows \in BOOLEAN :
         mockMode' = BlockchainService_initialize(profileExists, connectThrows)
    /\ server' = "blockchainInitialized"
    /\ UNCHANGED <<ledgerVars, clock, attempts, deeds, ipfsInitialized, land_deeds,
                   verification_requests, verification_logs, inflight, storeVars, fabric,
                   http>>

\* await IPFSService.initialize()
IPFSInitialize ==
    /\ server = "blockchainInitialized"
    /\ \E versionFails \in BOOLEAN :
         LET r == IPFSService_initialize(versionFails)
         IN  /\ ipfsInitialized' = r.initialized
             /\ server' = IF r.threw THEN "exited" ELSE "ipfsInitialized"
    /\ UNCHANGED <<ledgerVars, clock, attempts, deeds, mockMode, land_deeds,
                   verification_requests, verification_logs, inflight, storeVars, fabric,
                   http>>

\* app.listen(PORT, ...)
Listen ==
    /\ server = "ipfsInitialized"
    /\ server' = "listening"
    /\ UNCHANGED <<ledgerVars, clock, attempts, deeds, mockMode, ipfsInitialized, land_deeds,
                   verification_requests, verification_logs, inflight, storeVars, fabric,
                   http>>

\* Once listening, the server answers requests; POST /create stands for them.
Serve ==
    /\ server = "listening"
    /\ Len(deeds) < MaxServed
    /\ CreateDeedRoute

InitStartup ==
    /\ InitLedger
    /\ deeds = <<>>
    /\ mockMode = FALSE
    /\ ipfsInitialized = FALSE
    /\ land_deeds = <<>>
    /\ verification_requests = <<>>
    /\ verification_logs = <<>>
    /\ inflight = <<>>
    /\ ipfs = NoBlocks
    /\ storeCalls = <<>>
    /\ server = "starting"
    /\ fabric = NoFabric
    /\ http = NoRequest

NextStartup ==
    \/ DatabaseInitialize
    \/ BlockchainInitialize
    \/ IPFSInitialize
    \/ Listen
    \/ Serve

\* startServer is one async function: each awaited initialize settles, and the
\* statement after it then runs.
SpecStartup ==
    /\ InitStartup
    /\ [][NextStartup]_vars
    /\ WF_vars(DatabaseInitialize)
    /\ WF_vars(BlockchainInitialize)
    /\ WF_vars(IPFSInitialize)
    /\ WF_vars(Listen)

\* C30: once the database is initialized the server eventually listens,
\* whether or not the ledger and the IPFS node can be reached; once database
\* initialization has failed the server never listens.
C30_StartupReachesListening ==
    /\ (server = "databaseConnected") ~> (server = "listening")
    /\ [](server = "exited" => [](server # "listening"))

C30_Witness ==
    /\ server = "listening"
    /\ mockMode
    /\ ~ipfsInitialized
    /\ Len(deeds) = 1

\* ---------------------------------------------------------------------------
\* Document download (routes/deeds.js, GET /:id/document)
\* ---------------------------------------------------------------------------

\* IPFSService.getFile(ipfsHash): the service defines uploadFile, uploadBuffer,
\* downloadFile, getFileBuffer, pinFile, unpinFile and getFileInfo, and no
\* getFile, so the call throws a TypeError before anything is read.
IPFSService_getFile(initialized, store, ipfsHash) ==
    [threw |-> TRUE, error |-> "TypeError: IPFSService.getFile is not a function",
     ret |-> Nil]

DocumentRoute ==
    \E user \in Users, id \in 1..2 :
        LET found == SelectDeed(deeds, id)
            deed == deeds[CHOOSE i \in found : TRUE]
            canAccess == \/ RoleOf[user] = "government_official"
                         \/ RoleOf[user] = "legal_professional"
                         \/ deed.owner_id = user
            got == IPFSService_getFile(ipfsInitialized, ipfs, deed.ipfs_hash)
            reply(status, error, sent) ==
                http' = DecisionResponse("GET /:id/document", user, id, sent, status, error,
                                         IF status = 200 THEN Nil ELSE [error |-> error])
        IN  /\ IF found = {} THEN reply(404, "Deed not found", Nil)
               ELSE IF ~canAccess THEN reply(403, "Access denied", Nil)
               ELSE IF deed.ipfs_hash = Nil THEN reply(404, "Document not available", Nil)
               ELSE IF got.threw THEN reply(500, "Failed to retrieve document", Nil)
               ELSE reply(200, "none", got.ret)
            /\ UNCHANGED <<ledgerVars, clock, attempts, deeds, mockMode, ipfsInitialized,
                           land_deeds, verification_requests, verification_logs, inflight,
                           procVars, storeVars>>

NextDocument ==
    \/ Serve
    \/ DocumentRoute

SpecDocument == InitCoord /\ [][NextDocument]_vars

\* A download has been answered for a deed created with an attachment while
\* IPFS was live, asked for by an official, a legal professional or the owner.
PermittedDownloadOfLiveAttachment ==
    /\ http.route = "GET /:id/document"
    /\ SelectDeed(deeds, http.target) # {}
    /\ LET deed == deeds[CHOOSE i \in SelectDeed(deeds, http.target) : TRUE]
       IN  /\ deed.ipfs_hash # Nil
           /\ ~deed.ipfs_hash.mock
           /\ \/ RoleOf[http.user] \in {"government_official", "legal_professional"}
              \/ deed.owner_id = http.user

\* C31: for a deed created with an attachment while the Document Store was
\* live, a download by a permitted requester returns exactly the attachment
\* bytes, and the content address stored with the deed is the address string
\* the Document Store returned for those bytes.
C31_AttachmentRoundTrip ==
    PermittedDownloadOfLiveAttachment =>
        LET deed == deeds[CHOOSE i \in SelectDeed(deeds, http.target) : TRUE]
        IN  /\ http.status = 200
            /\ \E f \in Files : Sha256[f] = deed.document_hash /\ http.result = f
            /\ \E f \in Files : Sha256[f] = deed.document_hash /\ deed.ipfs_hash = Cid[f]

\* The stored ipfs_hash is the whole upload result, not its hash string.
StoredAddressIsUploadResult ==
    \A i \in 1..Len(deeds) :
        (deeds[i].ipfs_hash # Nil /\ ~deeds[i].ipfs_hash.mock)
            => deeds[i].ipfs_hash.hash \in {Cid[f] : f \in Files}

\* C32: when two process calls on one pending request interleave, the read of
\* its status and the UPDATE being separate steps, exactly one succeeds and
\* the other is answered AlreadyProcessed: a request that is no longer pending
\* is never written again, so its status, response details and processed_by
\* stay those of the one successful call.
C32_ProcessedOnce ==
    [][\A id \in 1..Len(verification_requests) :
          verification_requests[id].status # "pending"
              => /\ verification_requests'[id] = verification_requests[id]
                 /\ ~(/\ http' # http
                      /\ http'.route = "PUT /requests/:id/process"
                      /\ http'.id = id
                      /\ http'.status = 200)]_vars

\* ---------------------------------------------------------------------------
\* POST /create, one awaited call per step (routes/deeds.js)
\* ---------------------------------------------------------------------------

IdleCreate == [route |-> "none", pc |-> "idle", user |-> "", body |-> Nil,
               document_hash |-> Null, ipfs_hash |-> Nil, row |-> 0]

\* Requests that race for one deed number, from an official.
RaceBodies == {b \in CreateBodies : b.deed_number = "n1" /\ b.owner_id = "u1"}

CreateStepsUnchanged == <<clock, attempts, mockMode, ipfsInitialized, land_deeds,
                          verification_requests, verification_logs, procVars, storeCalls>>

\* Middleware, validation and the SELECT of a deed with the number.
BeginCreateDeed(h) ==
    \E user \in CoordUsers, body \in RaceBodies :
        LET reply(status, error) ==
                /\ http' = HttpResponse("POST /create", user, body, status, error, Nil, "none")
                /\ UNCHANGED inflight
        IN  /\ inflight[h].pc = "idle"
            /\ IF ~roleMiddleware({"government_official", "legal_professional"}, user)
               THEN reply(403, "Insufficient permissions")
               ELSE IF RowsWithNumber(deeds, body.deed_number) # {}
               THEN reply(409, "Conflict")
               ELSE /\ inflight' = [inflight EXCEPT ![h] =
                            [IdleCreate EXCEPT !.route = "POST /create",
                                               !.pc = "numberChecked",
                                               !.user = user, !.body = body]]
                    /\ UNCHANGED http
            /\ UNCHANGED <<CreateStepsUnchanged, deeds, ledgerVars, ipfs>>

\* The hash of the attachment and IPFSService.uploadFile, its error swallowed.
UploadDocument(h) ==
    /\ inflight[h].pc = "numberChecked"
    /\ \E random \in RandomBytes :
         \E addFails \in (IF ipfsInitialized /\ inflight[h].body.file # NoFile
                          THEN BOOLEAN ELSE {FALSE}) :
           LET file == inflight[h].body.file
               upload == IPFSService_uploadFile(ipfsInitialized, file, addFails, random)
           IN  /\ inflight' = [inflight EXCEPT ![h] =
                       [@ EXCEPT !.pc = "uploaded",
                                 !.document_hash =
                                     IF file # NoFile THEN Sha256[file] ELSE Null,
                                 !.ipfs_hash =
                                     IF file # NoFile /\ ~upload.threw THEN upload ELSE Nil]]
               /\ ipfs' = IF file # NoFile /\ ipfsInitialized /\ ~upload.threw
                          THEN AddBlock(ipfs, file)
                          ELSE ipfs
    /\ UNCHANGED <<CreateStepsUnchanged, deeds, ledgerVars, http>>

\* The INSERT: deed_number is UNIQUE, so a second row with the number is
\* refused by the database and the route's catch answers 500.
InsertDeed(h) ==
    /\ inflight[h].pc = "uploaded"
    /\ \E insertFails \in BOOLEAN :
         LET body == inflight[h].body
             row == [id |-> Len(deeds) + 1, deed_number |-> body.deed_number,
                     owner_id |-> body.owner_id,
                     property_address |-> body.property_address,
                     document_hash |-> inflight[h].document_hash,
                     ipfs_hash |-> inflight[h].ipfs_hash,
                     blockchain_transaction_id |-> [prefix |-> "none", ts |-> 0],
                     verification_status |-> "pending", created_by |-> inflight[h].user,
                     verified_by |-> Null]
         IN  IF insertFails \/ RowsWithNumber(deeds, body.deed_number) # {}
             THEN /\ http' = HttpResponse("POST /create", inflight[h].user, body, 500,
                                          "Failed to create deed", Nil, "none")
                  /\ inflight' = [inflight EXCEPT ![h] = IdleCreate]
                  /\ UNCHANGED deeds
             ELSE /\ deeds' = Append(deeds, row)
                  /\ inflight' = [inflight EXCEPT ![h].pc = "inserted", ![h].row = row.id]
                  /\ UNCHANGED http
    /\ UNCHANGED <<CreateStepsUnchanged, ledgerVars, ipfs>>

\* BlockchainService.createDeed, the UPDATE of the transaction id, the reply.
MirrorDeed(h) ==
    /\ inflight[h].pc = "inserted"
    /\ \E unreachable \in (IF mockMode THEN {FALSE} ELSE BOOLEAN) :
         LET body == inflight[h].body
             row == deeds[inflight[h].row]
             deedData == [deedNumber |-> body.deed_number, ownerId |-> body.owner_id,
                          propertyAddress |-> body.property_address,
                          documentHash |-> inflight[h].document_hash,
                          createdBy |-> inflight[h].user]
             chain == BlockchainService_createDeed(worldState, mockMode, deedData, clock,
                                                   unreachable)
             mirrored == MirrorToLedger(row, chain)
         IN  /\ deeds' = [deeds EXCEPT ![inflight[h].row] = mirrored.deed]
             /\ Commit(chain.sim)
             /\ http' = HttpResponse("POST /create", inflight[h].user, body, mirrored.status,
                                     mirrored.error, mirrored.deed,
                                     IF chain.threw THEN chain.sim.err ELSE "none")
    /\ inflight' = [inflight EXCEPT ![h] = IdleCreate]
    /\ UNCHANGED <<CreateStepsUnchanged, response, lastCreated, ipfs>>

InitCreateSteps ==
    /\ InitLedger
    /\ deeds = <<>>
    /\ mockMode \in BOOLEAN
    /\ ipfsInitialized \in BOOLEAN
    /\ land_deeds = <<>>
    /\ verification_requests = <<>>
    /\ verification_logs = <<>>
    /\ inflight = [h \in Handlers |-> IdleCreate]
    /\ ipfs = NoBlocks
    /\ storeCalls = <<>>
    /\ server = "listening"
    /\ fabric = NoFabric
    /\ http = NoRequest

NextCreateSteps ==
    \/ \E h \in Handlers : BeginCreateDeed(h)
    \/ \E h \in Handlers : UploadDocument(h)
    \/ \E h \in Handlers : InsertDeed(h)
    \/ \E h \in Handlers : MirrorDeed(h)

SpecCreateSteps == InitCreateSteps /\ [][NextCreateSteps]_vars

\* Handler h is answering a create whose deed number another call has taken.
LosesRace(h) ==
    /\ inflight[h].pc # "idle"
    /\ inflight'[h].pc = "idle"
    /\ http'.status # 201
    /\ RowsWithNumber(deeds, inflight[h].body.deed_number) # {}

\* C33: when two create calls with one deed number interleave, at most one
\* row with that number is ever stored, the call that loses is answered
\* Conflict (409), and it has left nothing on the ledger and no attachment in
\* the Document Store.
C33_ConcurrentCreateOneWinner ==
    [][/\ \A n \in DeedNumbers : Cardinality(RowsWithNumber(deeds', n)) <= 1
       /\ \A h \in Handlers :
            LosesRace(h) => /\ http'.status = 409
                            /\ inflight[h].ipfs_hash = Nil
                            /\ worldState' = worldState]_vars

\* The UNIQUE constraint does keep the number to one row.
OneRowPerNumber == \A n \in DeedNumbers : Cardinality(RowsWithNumber(deeds, n)) <= 1

\* ---------------------------------------------------------------------------
\* Ledger: two transfers that both name the current owner
\* ---------------------------------------------------------------------------

\* Two clients submit a transfer of the deed, each with the current owner as
\* from-owner, to different to-owners.
RaceSubmitOwner ==
    \E to1 \in RaceOwners, to2 \in RaceOwners :
        /\ DeedExists(worldState, RaceDeed)
        /\ attempts = <<>>
        /\ to1 # to2
        /\ attempts' = [a \in Attempts |->
                          IF a = "correct"
                          THEN Attempt(Transfer(RaceDeed, CurrentOwner, to1, "sale"))
                          ELSE Attempt(Transfer(RaceDeed, CurrentOwner, to2, "gift"))]
        /\ UNCHANGED <<ledgerVars, clock, appVars>>

NextRaceOwner ==
    \/ RaceCreateDeed
    \/ RaceSubmitOwner
    \/ \E a \in Attempts : EndorseTransfer(a)
    \/ \E a \in Attempts : CommitTransfer(a)
    \/ Tick

SpecRaceOwner == Init /\ [][NextRaceOwner]_vars

\* One attempt succeeded, the other was refused for its owner or invalidated
\* at commit, the winner's to-owner owns the deed, and the deed's history
\* holds its creation and one more entry.
OneWinner ==
    /\ Cardinality(Outcomes("success")) = 1
    /\ Cardinality(Outcomes("OwnershipMismatch") \cup Outcomes("MVCC_READ_CONFLICT")) = 1
    /\ \E a \in Outcomes("success") : CurrentOwner = attempts[a].transfer.ToOwnerID
    /\ Len(HistoryOf(historyDb, RaceDeed)) = 2

\* C34 (as claimed): two concurrent transfers of one deed that both carry the
\* current owner as from-owner and name different to-owners end with exactly
\* one success and one OwnershipMismatch or Conflict; the final owner is the
\* winner's to-owner and the history gains exactly one entry.
C34_OneTransferWins == RaceOver => OneWinner

\* C34 (amended): the same, provided neither transfer names the current owner
\* as its to-owner.
C34_OneTransferWinsUnlessSelf ==
    (/\ RaceOver
     /\ \A a \in Attempts : attempts[a].transfer.ToOwnerID # attempts[a].transfer.FromOwnerID)
    => OneWinner

C34_Witness ==
    /\ RaceOver
    /\ \A a \in Attempts : attempts[a].transfer.ToOwnerID # attempts[a].transfer.FromOwnerID
    /\ attempts["stale"].outcome = "success"
    /\ attempts["correct"].outcome = "MVCC_READ_CONFLICT"
    /\ CurrentOwner = attempts["stale"].transfer.ToOwnerID

\* ---------------------------------------------------------------------------
\* Ledger: Transfer records and lifecycle status
\* ---------------------------------------------------------------------------

\* The Transfer records stored for a deed, and the successful transfers of
\* it: each one commits one write to a transfer key of the deed.
TransferKeysOf(ws, id) == {k \in DOMAIN ws : k.ns = "transfer" /\ k.id = id}

RECURSIVE SumOfWrites(_, _)
SumOfWrites(hist, keys) ==
    IF keys = {} THEN 0
    ELSE LET k == CHOOSE x \in keys : TRUE
         IN  Len(hist[k]) + SumOfWrites(hist, keys \ {k})

SuccessfulTransfers(id) == SumOfWrites(historyDb, TransferKeysOf(historyDb, id))

\* C35: with a clock that may stay equal between calls, the number of
\* Transfer records stored for a deed equals the number of successful
\* transfers of that deed, no record having been overwritten by a later one.
C35_OneRecordPerTransfer ==
    \A id \in DeedIds :
        /\ Cardinality(TransferKeysOf(worldState, id)) = SuccessfulTransfers(id)
        /\ \A k \in TransferKeysOf(worldState, id) : Len(historyDb[k]) = 1

\* Partial updates whose status is none of the four lifecycle values.
AnyStatusUpdates == {[NoUpdates EXCEPT !.status = s] : s \in {"archived"}}

\* UpdateDeed called with such an update: status.(string) takes any string.
SubmitUpdateAnyStatus ==
    \E deedID \in DeedIds, updates \in AnyStatusUpdates :
        LET sim == UpdateDeed(worldState, deedID, updates, clock, 0) IN
        /\ committed < MaxTx
        /\ UNCHANGED <<clock, attempts, appVars>>
        /\ Commit(sim)
        /\ response' = Response("UpdateDeed", Nil, deedID, "", updates, Nil, sim, <<>>)
        /\ lastCreated' = IF Commits(sim) THEN Nil ELSE lastCreated

NextStatus ==
    \/ SubmitCreateDeed
    \/ SubmitUpdateDeed
    \/ SubmitUpdateAnyStatus
    \/ SubmitTransferDeed

SpecStatus == Init /\ [][NextStatus]_vars

\* C36: after any CreateDeed, UpdateDeed (with any partial update) and
\* TransferDeed calls, every stored deed's status is one of pending, verified,
\* rejected and transferred.
C36_StatusInLifecycle ==
    \A k \in DOMAIN worldState :
        worldState[k].kind = "deed" => worldState[k].Status \in Statuses

\* CreateDeed by itself always stores pending, whatever status is supplied.
CreateStoresPending ==
    [][(CallStep /\ response'.op = "CreateDeed" /\ response'.err = "none")
         => worldState'[DeedKey(response'.id)].Status = "pending"]_vars

\* ---------------------------------------------------------------------------
\* Gateway in mock mode; ordering of POST /create
\* ---------------------------------------------------------------------------

\* The rows whose transaction identifier came from the mock createDeed.
MockWrittenRows ==
    {i \in 1..Len(deeds) : deeds[i].blockchain_transaction_id.prefix = "mock_tx_"}

\* C37: in mock mode the gateway sends nothing to the ledger, and the
\* transaction identifiers it returned for two distinct createDeed calls are
\* different, the clock being allowed to stay equal between the calls.
C37_MockIdsDistinct ==
    mockMode =>
        /\ committed = 0 /\ DOMAIN worldState = {}
        /\ \A i, j \in MockWrittenRows :
               i # j => deeds[i].blockchain_transaction_id # deeds[j].blockchain_transaction_id

\* The first half by itself: mock mode leaves the ledger untouched.
MockNeverReachesLedger == mockMode => committed = 0 /\ DOMAIN worldState = {}

\* C38: whenever POST /create fails (validation, conflict or insert failure)
\* the call has left no ledger entry and no stored attachment behind: the
\* document store and the ledger are reached only after the insert.
C38_FailedCreateLeavesNothing ==
    [][(CallStep /\ http'.route = "POST /create" /\ http'.status # 201)
         => (ipfs' = ipfs /\ worldState' = worldState)]_vars

\* The ledger half by itself: a failed create writes nothing to the ledger.
FailedCreateLeavesLedger ==
    [][(CallStep /\ http'.route = "POST /create" /\ http'.status # 201)
         => worldState' = worldState]_vars

\* ---------------------------------------------------------------------------
\* Ledger: rich queries
\* ---------------------------------------------------------------------------

\* json.Unmarshal(queryResult.Value, &deed): a deed document gives the deed;
\* a transfer document fills only the field whose tag it shares ("id") and
\* leaves every other field at its zero value.
UnmarshalDeed(value) ==
    IF value.kind = "deed" THEN value ELSE Deed(value.ID, "", "", "", "", "", "")

\* queryDeeds: every query result unmarshalled into a Deed, or the error of
\* the first value that is not JSON.
queryDeeds(ws, keys) ==
    IF \E k \in keys : ~IsJson(ws[k])
    THEN Sim("UnmarshalError", {}, {}, <<>>)
    ELSE Sim("none", {[key |-> k, deed |-> UnmarshalDeed(ws[k])] : k \in keys}, {}, <<>>)

\* {"selector":{"ownerId":o}}: the JSON documents whose ownerId field is o.
QueryDeedsByOwner(ws, ownerID) ==
    queryDeeds(ws, {k \in DOMAIN ws :
                       /\ IsJson(ws[k])
                       /\ "OwnerID" \in DOMAIN ws[k]
                       /\ ws[k].OwnerID = ownerID})

QueryAllDeeds(ws, binaryMatched) ==
    queryDeeds(ws, GetQueryResult(ws, EmptySelector, binaryMatched))

EvaluateQueryAllDeeds ==
    \E binaryMatched \in BOOLEAN :
        /\ response' = Response("QueryAllDeeds", Nil, "", "", NoUpdates, Nil,
                                QueryAllDeeds(worldState, binaryMatched), <<>>)
        /\ UNCHANGED <<worldState, historyDb, clock, committed, lastCreated, attempts, appVars>>

EvaluateQueryDeedsByOwner ==
    \E ownerID \in Owners :
        /\ response' = Response("QueryDeedsByOwner", Nil, ownerID, "", NoUpdates, Nil,
                                QueryDeedsByOwner(worldState, ownerID), <<>>)
        /\ UNCHANGED <<worldState, historyDb, clock, committed, lastCreated, attempts, appVars>>

EvaluateQueryDeedsByStatus ==
    \E status \in Statuses :
        /\ response' = Response("QueryDeedsByStatus", Nil, status, "", NoUpdates, Nil,
                                queryDeeds(worldState, QueryDeedsByStatus(worldState, status)),
                                <<>>)
        /\ UNCHANGED <<worldState, historyDb, clock, committed, lastCreated, attempts, appVars>>

NextQuery ==
    \/ SubmitCreateDeed
    \/ SubmitUpdateDeed
    \/ SubmitTransferDeed
    \/ EvaluateQueryAllDeeds
    \/ EvaluateQueryDeedsByOwner
    \/ EvaluateQueryDeedsByStatus

SpecQuery == Init /\ [][NextQuery]_vars

\* The snapshots of the stored deeds that satisfy a condition on the record.
Snapshots(keys) == {[key |-> k, deed |-> worldState[k]] : k \in keys}

\* The owner and status queries answer with exactly the matching deeds; after
\* a transfer the deed is listed for the new owner and not for the old one.
OwnerAndStatusQueriesExact ==
    /\ response.op = "QueryDeedsByOwner" =>
           /\ response.err = "none"
           /\ response.ret = Snapshots({k \in StoredDeeds : worldState[k].OwnerID = response.id})
    /\ response.op = "QueryDeedsByStatus" =>
           /\ response.err = "none"
           /\ response.ret = Snapshots(StoredDeedsWithStatus(response.id))

\* C39: in every ledger state QueryAllDeeds returns exactly the stored deed
\* records, one per deed identifier and nothing that is not a deed,
\* QueryDeedsByOwner(o) exactly the deeds currently owned by o and
\* QueryDeedsByStatus(s) exactly the deeds whose status is s.
C39_QueriesReturnExactlyDeeds ==
    /\ OwnerAndStatusQueriesExact
    /\ response.op = "QueryAllDeeds" =>
           /\ response.err = "none"
           /\ response.ret = Snapshots(StoredDeeds)

\* QueryAllDeeds is exact when it answers and no Transfer record is stored.
AllDeedsExactWithoutTransfers ==
    (/\ response.op = "QueryAllDeeds"
     /\ response.err = "none"
     /\ \A id \in DeedIds : TransferKeysOf(worldState, id) = {})
        => response.ret = Snapshots(StoredDeeds)

\* The same without the condition on Transfer records.
AllDeedsExactWhenAnswered ==
    (response.op = "QueryAllDeeds" /\ response.err = "none")
        => response.ret = Snapshots(StoredDeeds)

\* ---------------------------------------------------------------------------
\* Verification log
\* ---------------------------------------------------------------------------

\* The log rows a step appends.
LogsAppended == Len(verification_logs') - Len(verification_logs)

\* No step updates or deletes a log row: the old log is a prefix of the new.
LogKeepsRows ==
    /\ LogsAppended >= 0
    /\ SubSeq(verification_logs', 1, Len(verification_logs)) = verification_logs

\* The deed a verify request is about exists in the deeds table.
VerifiedDeedExists(request) ==
    IF request.route = "POST /:id/verify"
    THEN SelectDeed(deeds, request.target) # {}
    ELSE RowsWithNumber(deeds, request.target) # {}

\* A step that served a verify request with an effect or a new answer.
VerifyServed ==
    /\ CallStep
    /\ http'.route \in {"POST /:id/verify", "POST /verify/:deedNumber"}
    /\ http' # http \/ deeds' # deeds \/ verification_logs' # verification_logs

\* The verification log is append-only.
LogAppendOnly == [][LogKeepsRows]_vars

DeedRouteLogCountsDecisions ==
    [][(VerifyServed /\ http'.route = "POST /:id/verify") =>
            /\ LogsAppended = (IF http'.status = 200 THEN 1 ELSE 0)
            /\ ~VerifiedDeedExists(http') => (LogsAppended = 0 /\ deeds' = deeds)]_vars

====
